---- MODULE Spec2Model ----
(***************************************************************************)
(* Device communication and synchronisation layer of the edge gateway:     *)
(* the serial port pool (SerialPortManager), the device registry           *)
(* (DeviceConfigLoader / BluetoothDevice), the polling worker and the      *)
(* single-device poll (BluetoothPollingWorker / BluetoothPollingService),  *)
(* the threads of the worker (start / stop / _run_loop), the command       *)
(* sender (BluetoothCommandSender), the pool singleton, the topic          *)
(* matching and the bus client (MqttConnectionManager).                    *)
(*                                                                         *)
(* Each component has its own specification over its own variables; the    *)
(* variables of the other components stay at their initial value.          *)
(***************************************************************************)
EXTENDS Integers, Sequences, FiniteSets, TLC

(***************************************************************************)
(* Bounds                                                                  *)
(***************************************************************************)
\* number of pool entries (serial.Serial objects) ever created
MaxEntries == 2
\* number of polling cycles the worker runs
MaxCycles == 3
\* number of enqueue_send_threshold_config calls
MaxEnqueue == 2
\* number of times the device-list file is rewritten
MaxEdits == 1
\* number of reconnect timer threads that sleep at the same time
MaxTimers == 2
\* length of the patterns and of the topics given to _topic_matches
MaxPatternLen == 5
MaxTopicLen == 3
\* largest absolute value given to set_threshold and set_interval
MaxValue == 150
\* number of polling-loop threads ever spawned
MaxLoops == 2
\* number of devices in the list of a polling loop
MaxPolls == 1
\* number of half-second sleeps that make one polling interval
MaxSleepChecks == 1

\* BluetoothConfig.CONFIG_RELOAD_CYCLES (BLUETOOTH_CONFIG_RELOAD_CYCLES=2)
CONFIG_RELOAD_CYCLES == 2
\* BluetoothConfig.TIMEOUT (BLUETOOTH_TIMEOUT=2), in seconds
TIMEOUT == 2
\* the read timeout that get_connection gives the serial handle, in seconds
SerialTimeout == 2
\* requests written to the serial handle of one port
MaxRequests == 3
\* lines that the device sends during one response wait
MaxLines == 2

(***************************************************************************)
(* PORT POOL  --  src/shared/infrastructure/bluetooth/serial_port_manager  *)
(***************************************************************************)
Threads == {"t1", "t2"}
PoolPorts == {"COM4", "COM5"}
NoThread == "none"
NoEntry == 0
EntryIds == 1..MaxEntries

VARIABLES
    connections,   \* SerialPortManager._connections : port -> entry id | NoEntry
    entryLock,     \* entry["lock"]     : holder of the per-entry threading.Lock
    entryRefcount, \* entry["refcount"]
    entrySerialOpen, \* entry["serial"] : is the serial.Serial handle open
    nEntries,      \* number of entries created so far (object identity)
    globalLock,    \* SerialPortManager._global_lock : holder
    tpc,           \* position of each caller inside get_connection
    tport,         \* port argument of the caller's current lease request
    tlock,         \* the local variable `lock` (entry id whose lock it is)
    portPresent,   \* list_ports.comports(): ports enumerable on the host
    released       \* per port, the entry of the lease scope that ended last

poolVars == <<connections, entryLock, entryRefcount, entrySerialOpen, nEntries,
              globalLock, tpc, tport, tlock, portPresent, released>>

VARIABLES
    configFile,     \* bluetooth_devices.json: exists, mtime, content
    objs,           \* heap of BluetoothDevice objects, by slot
    loaderDevices,  \* DeviceConfigLoader.devices (dict values, in order)
    last_modified,  \* DeviceConfigLoader.last_modified
    loadResult,     \* path taken by the latest load_devices call
    loadTick,       \* flips at every load_devices call
    running,        \* BluetoothPollingWorker.running
    wpc,            \* position of the worker thread in _run_loop
    cycle_count,    \* BluetoothPollingWorker.cycle_count
    workerDevices,  \* the local `devices` of _run_loop
    pollIdx,        \* position of the for loop over devices
    ppc,            \* position inside poll_device
    pctx,           \* where the running status handler was called from
    lastLookup,     \* the local `device` of the latest status handler
    pollRec,        \* the latest poll_device call: how its exchange went
    cyclePolls,     \* the devices handed to poll_device in this cycle
    pollLease,      \* poll_device is inside `with manager.get_connection`
                    \* and holds the mutex of the port
                    \* and how the call ended
    command_queue,  \* BluetoothPollingWorker.command_queue
    nEnq,           \* number of enqueue calls so far (tokens)
    lastEvent,      \* the event the latest status handler call published
    hist,           \* per descriptor, while it has never answered a ping:
                    \* its polls and the offline events published for it
    dequeued,       \* tokens in the order they left the queue
    sendCalls,      \* per token: send_threshold_config invocations
    cmdHist,        \* per token: when it was enqueued, what was polled since
    drainSnap,      \* tokens that were queued when the cycle's drain began
    lastDrain       \* the latest dequeued command: its lookup, the identifier
                    \* it was resolved with and the device it was sent to

workerVars == <<configFile, objs, loaderDevices, last_modified, loadResult,
                loadTick, running, wpc, cycle_count, workerDevices, pollIdx,
                ppc, pctx, lastLookup, lastEvent, pollRec, cyclePolls,
                pollLease,
                command_queue,
                nEnq, hist,
                dequeued,
                sendCalls, cmdHist, drainSnap, lastDrain>>

registryVars == <<objs, loaderDevices, last_modified, loadResult, loadTick>>
loopVars == <<running, wpc, cycle_count, workerDevices, pollIdx>>
pollVars == <<ppc, pctx, lastLookup, lastEvent, pollRec, cyclePolls,
              pollLease>>
queueVars == <<command_queue, nEnq, dequeued, sendCalls, cmdHist, drainSnap,
               lastDrain>>

VARIABLES
    connected,        \* MqttConnectionManager.connected
    reconnecting,     \* MqttConnectionManager.reconnecting
    message_handlers, \* MqttConnectionManager.message_handlers, in order
    sock,             \* the client library holds a socket to the broker
    connackPending,   \* CONNECT was sent, the connect callback is due
    loopOn,           \* the client's network loop thread runs (loop_start)
    issuedSubs,       \* patterns passed to client.subscribe on this socket
    resub,            \* the iterator of the re-subscribe loop of _on_connect
    search,           \* the iterator of the pattern loop of _find_handler
    timerPending,     \* reconnect timer threads that are still sleeping
    busOp,            \* the latest call or callback with what it saw and did
    downSince         \* an unexpected disconnect happened and no connect
                      \* callback has succeeded since

busVars == <<connected, reconnecting, message_handlers, sock, connackPending,
             loopOn, issuedSubs, resub, search, timerPending, busOp,
             downSince>>

VARIABLES
    matchCall         \* the latest call of _topic_matches and its result

matchVars == <<matchCall>>

VARIABLES
    senderCall        \* the latest call of the command sender and what it did

senderVars == <<senderCall>>

VARIABLES
    wait              \* a call of send_and_wait_response: its position, the
                      \* clock, the deadline and the lines it has read

waitVars == <<wait>>

VARIABLES
    tx,               \* the characters written to the serial handle of a
                      \* port, in order (JSON texts are kept as tokens)
    rx,               \* the lines in the input buffer of the handle that
                      \* no readline has taken yet
    requests,         \* the requests written to the handle, by number
    answered,         \* the requests that the device has answered
    xch               \* the exchange of the command sender on the handle

linkVars == <<tx, rx, requests, answered, xch>>

VARIABLES
    rcFile,           \* the device-list file, while loads run concurrently
    rcObjs,           \* the BluetoothDevice objects, by slot
    rcDevices,        \* DeviceConfigLoader.devices: the slots, in order
    rcLastModified,   \* DeviceConfigLoader.last_modified
    rcWorkerDevices,  \* the local `devices` of _run_loop
    rcLoad            \* per context: its position in load_devices and its
                      \* local new_devices and current_mtime

reloadVars == <<rcFile, rcObjs, rcDevices, rcLastModified, rcWorkerDevices,
                rcLoad>>

VARIABLES
    instance,         \* SerialPortManager._instance (class attribute)
    nInstances,       \* number of SerialPortManager objects made so far
    hasConnections,   \* per object: does it have the attribute _connections
    instConnections,  \* per object: the ports that have an entry in its dict
    npc,              \* position of each caller in SerialPortManager() and
                      \* in the lease that follows it
    manager,          \* per caller: the local variable `manager`
    mport,            \* per caller: the port of its lease request
    mresult           \* per caller: what its lease request yielded

singletonVars == <<instance, nInstances, hasConnections, instConnections, npc,
                   manager, mport, mresult>>

VARIABLES
    thread,           \* BluetoothPollingWorker.thread: the latest loop thread
    nLoops,           \* number of loop threads spawned so far
    lpc,              \* per loop thread: its position in _run_loop
    lidx,             \* per loop thread: devices polled in this cycle
    elapsed,          \* per loop thread: `elapsed` of the sleep, in checks
    cpc,              \* per caller: its position in start() or stop()
    stopCalled        \* has stop() been called by anybody

lifecycleVars == <<thread, nLoops, lpc, lidx, elapsed, cpc, stopCalled>>

\* what the actions of one component leave alone
notPool == <<workerVars, busVars, matchVars, senderVars, singletonVars,
             lifecycleVars, waitVars, linkVars, reloadVars>>
notWorker == <<poolVars, busVars, matchVars, senderVars, singletonVars,
               lifecycleVars, waitVars, linkVars, reloadVars>>
notBus == <<poolVars, workerVars, matchVars, senderVars, singletonVars,
            lifecycleVars, waitVars, linkVars, reloadVars>>
notMatch == <<poolVars, workerVars, busVars, senderVars, singletonVars,
              lifecycleVars, waitVars, linkVars, reloadVars>>
notSender == <<poolVars, workerVars, busVars, matchVars, singletonVars,
               lifecycleVars, waitVars, linkVars, reloadVars>>
notSingleton == <<poolVars, workerVars, busVars, matchVars, senderVars,
                  lifecycleVars, waitVars, linkVars, reloadVars>>
\* the threads of the worker share the flag `running` with the loop above
notWait == <<poolVars, workerVars, busVars, matchVars, senderVars,
             singletonVars, lifecycleVars, linkVars, reloadVars>>
notLink == <<poolVars, workerVars, busVars, matchVars, senderVars,
             singletonVars, lifecycleVars, waitVars, reloadVars>>
notReload == <<poolVars, workerVars, busVars, matchVars, senderVars,
               singletonVars, lifecycleVars, waitVars, linkVars>>
notLifecycle == <<poolVars, busVars, matchVars, senderVars, singletonVars,
                  waitVars, linkVars, reloadVars,
                  configFile, registryVars, wpc, cycle_count, workerDevices,
                  pollIdx, pollVars, queueVars, hist>>

PoolInit ==
    /\ connections = [p \in PoolPorts |-> NoEntry]
    /\ entryLock = [e \in EntryIds |-> NoThread]
    /\ entryRefcount = [e \in EntryIds |-> 0]
    /\ entrySerialOpen = [e \in EntryIds |-> FALSE]
    /\ nEntries = 0
    /\ globalLock = NoThread
    /\ tpc = [t \in Threads |-> "idle"]
    /\ tport = [t \in Threads |-> "COM4"]
    /\ tlock = [t \in Threads |-> NoEntry]
    /\ portPresent = [p \in PoolPorts |-> TRUE]
    /\ released = [p \in PoolPorts |-> NoEntry]

\* get_connection, lines 152-158: no entry and the port is not enumerable:
\* the generator yields None while it is still inside `with _global_lock`.
LeaseNoPort(t, p) ==
    /\ tpc[t] = "idle"
    /\ globalLock = NoThread
    /\ connections[p] = NoEntry
    /\ ~portPresent[p]
    /\ globalLock' = t
    /\ tpc' = [tpc EXCEPT ![t] = "scope_none"]
    /\ tport' = [tport EXCEPT ![t] = p]
    /\ UNCHANGED <<notPool, released, connections, entryLock, entryRefcount, entrySerialOpen,
                   nEntries, tlock, portPresent>>

\* get_connection, lines 159-162: _open_serial returned None.
LeaseOpenFails(t, p) ==
    /\ tpc[t] = "idle"
    /\ globalLock = NoThread
    /\ connections[p] = NoEntry
    /\ portPresent[p]
    /\ globalLock' = t
    /\ tpc' = [tpc EXCEPT ![t] = "scope_none"]
    /\ tport' = [tport EXCEPT ![t] = p]
    /\ UNCHANGED <<notPool, released, connections, entryLock, entryRefcount, entrySerialOpen,
                   nEntries, tlock, portPresent>>

\* get_connection, lines 159-173: open the port, create the entry, count the
\* reference, leave the global lock.
LeaseCreate(t, p) ==
    /\ tpc[t] = "idle"
    /\ globalLock = NoThread
    /\ connections[p] = NoEntry
    /\ portPresent[p]
    /\ nEntries < MaxEntries
    /\ LET e == nEntries + 1 IN
         /\ nEntries' = e
         /\ connections' = [connections EXCEPT ![p] = e]
         /\ entrySerialOpen' = [entrySerialOpen EXCEPT ![e] = TRUE]
         /\ entryRefcount' = [entryRefcount EXCEPT ![e] = 1]
         /\ tlock' = [tlock EXCEPT ![t] = e]
    /\ tpc' = [tpc EXCEPT ![t] = "acquire"]
    /\ tport' = [tport EXCEPT ![t] = p]
    /\ UNCHANGED <<notPool, released, entryLock, globalLock, portPresent>>

\* get_connection, lines 152-154 and 170-173: the entry exists and is reused.
LeaseReuse(t, p) ==
    /\ tpc[t] = "idle"
    /\ globalLock = NoThread
    /\ connections[p] # NoEntry
    /\ LET e == connections[p] IN
         /\ entryRefcount' = [entryRefcount EXCEPT ![e] = @ + 1]
         /\ tlock' = [tlock EXCEPT ![t] = e]
    /\ tpc' = [tpc EXCEPT ![t] = "acquire"]
    /\ tport' = [tport EXCEPT ![t] = p]
    /\ UNCHANGED <<notPool, released, connections, entryLock, entrySerialOpen, nEntries,
                   globalLock, portPresent>>

\* get_connection, lines 176-179: lock.acquire() and yield the adapter.
LeaseAcquire(t) ==
    /\ tpc[t] = "acquire"
    /\ entryLock[tlock[t]] = NoThread
    /\ entryLock' = [entryLock EXCEPT ![tlock[t]] = t]
    /\ tpc' = [tpc EXCEPT ![t] = "scope"]
    /\ UNCHANGED <<notPool, released, connections, entryRefcount, entrySerialOpen, nEntries,
                   globalLock, tport, tlock, portPresent>>

\* get_connection, line 181: the caller's body ended; lock.release().
LeaseUnlock(t) ==
    /\ tpc[t] = "scope"
    /\ entryLock' = [entryLock EXCEPT ![tlock[t]] = NoThread]
    /\ tpc' = [tpc EXCEPT ![t] = "finally"]
    /\ released' = [released EXCEPT ![tport[t]] = tlock[t]]
    /\ UNCHANGED <<notPool, connections, entryRefcount, entrySerialOpen, nEntries,
                   globalLock, tport, tlock, portPresent>>

\* get_connection, lines 186-192: the close of the handle at release is
\* commented out: the handle stays as it is
SerialClosedAtRelease(open, e) == [open EXCEPT ![e] = FALSE]
SerialAfterRelease(open, e) == open

\* get_connection, lines 182-192: under the global lock, decrement the
\* refcount of whatever entry the port has now.
LeaseFinally(t) ==
    /\ tpc[t] = "finally"
    /\ globalLock = NoThread
    /\ LET e == connections[tport[t]] IN
         /\ entryRefcount' = IF e # NoEntry
                             THEN [entryRefcount EXCEPT ![e] = @ - 1]
                             ELSE entryRefcount
         /\ entrySerialOpen' = IF e # NoEntry
                               THEN SerialAfterRelease(entrySerialOpen, e)
                               ELSE entrySerialOpen
    /\ tpc' = [tpc EXCEPT ![t] = "idle"]
    /\ tlock' = [tlock EXCEPT ![t] = NoEntry]
    /\ UNCHANGED <<notPool, released, connections, entryLock, nEntries,
                   globalLock, tport, portPresent>>

\* get_connection, lines 157-158 / 161-162: the body of a `with` that got
\* None ends; the generator returns and leaves `with _global_lock`.
LeaseNoneExit(t) ==
    /\ tpc[t] = "scope_none"
    /\ globalLock' = NoThread
    /\ tpc' = [tpc EXCEPT ![t] = "idle"]
    /\ UNCHANGED <<notPool, released, connections, entryLock, entryRefcount, entrySerialOpen,
                   nEntries, tport, tlock, portPresent>>

\* close_connection, lines 195-206: pop the entry and close its handle.
CloseConnection(p) ==
    /\ globalLock = NoThread
    /\ LET e == connections[p] IN
         /\ connections' = [connections EXCEPT ![p] = NoEntry]
         /\ entrySerialOpen' = IF e # NoEntry
                               THEN [entrySerialOpen EXCEPT ![e] = FALSE]
                               ELSE entrySerialOpen
    /\ UNCHANGED <<notPool, released, entryLock, entryRefcount, nEntries, globalLock, tpc, tport,
                   tlock, portPresent>>

\* the host plugs or unplugs a serial device (what _port_exists observes)
PortPlug(p) ==
    /\ portPresent' = [portPresent EXCEPT ![p] = ~@]
    /\ UNCHANGED <<notPool, released, connections, entryLock, entryRefcount, entrySerialOpen,
                   nEntries, globalLock, tpc, tport, tlock>>

PoolNext ==
    \/ \E t \in Threads, p \in PoolPorts : LeaseNoPort(t, p)
    \/ \E t \in Threads, p \in PoolPorts : LeaseOpenFails(t, p)
    \/ \E t \in Threads, p \in PoolPorts : LeaseCreate(t, p)
    \/ \E t \in Threads, p \in PoolPorts : LeaseReuse(t, p)
    \/ \E t \in Threads : LeaseAcquire(t)
    \/ \E t \in Threads : LeaseUnlock(t)
    \/ \E t \in Threads : LeaseFinally(t)
    \/ \E t \in Threads : LeaseNoneExit(t)
    \/ \E p \in PoolPorts : CloseConnection(p)
    \/ \E p \in PoolPorts : PortPlug(p)

\* callers inside a lease scope that holds an adapter for port p
InScope(p) == {t \in Threads : tpc[t] = "scope" /\ tport[t] = p}


(***************************************************************************)
(* PORT POOL SINGLETON  --  SerialPortManager.__new__ and its callers      *)
(***************************************************************************)
NoInstance == 0
\* every caller that finds _instance None makes one object
InstanceIds == 1..Cardinality(Threads)
NoPorts == [p \in PoolPorts |-> FALSE]

SingletonInit ==
    /\ instance = NoInstance
    /\ nInstances = 0
    /\ hasConnections = [i \in InstanceIds |-> FALSE]
    /\ instConnections = [i \in InstanceIds |-> NoPorts]
    /\ npc = [t \in Threads |-> "idle"]
    /\ manager = [t \in Threads |-> NoInstance]
    /\ mport = [t \in Threads |-> "COM4"]
    /\ mresult = [t \in Threads |-> "nothing"]

\* __new__, line 122: `if cls._instance is None`
NewCheck(t) ==
    /\ npc[t] = "idle"
    /\ npc' = [npc EXCEPT ![t] = IF instance = NoInstance THEN "create"
                                 ELSE "return"]
    /\ UNCHANGED <<notSingleton, instance, nInstances, hasConnections,
                   instConnections, manager, mport, mresult>>

\* __new__, line 123: `cls._instance = super().__new__(cls)`
NewCreate(t) ==
    /\ npc[t] = "create"
    /\ nInstances' = nInstances + 1
    /\ instance' = nInstances + 1
    /\ npc' = [npc EXCEPT ![t] = "set"]
    /\ UNCHANGED <<notSingleton, hasConnections, instConnections, manager,
                   mport, mresult>>

\* __new__, line 124: `cls._instance._connections = {}`, on the object that
\* the class attribute names now
NewSetConnections(t) ==
    /\ npc[t] = "set"
    /\ hasConnections' = [hasConnections EXCEPT ![instance] = TRUE]
    /\ instConnections' = [instConnections EXCEPT ![instance] = NoPorts]
    /\ npc' = [npc EXCEPT ![t] = "return"]
    /\ UNCHANGED <<notSingleton, instance, nInstances, manager, mport,
                   mresult>>

\* __new__, line 125: `return cls._instance`; the caller keeps it in
\* `manager` (bluetooth_polling_service.py, lines 88 and 379)
NewReturn(t) ==
    /\ npc[t] = "return"
    /\ manager' = [manager EXCEPT ![t] = instance]
    /\ npc' = [npc EXCEPT ![t] = "have"]
    /\ UNCHANGED <<notSingleton, instance, nInstances, hasConnections,
                   instConnections, mport, mresult>>

\* the callers that are inside a lease scope of object i
ScopesOf(i) == {u \in Threads : npc[u] = "scope" /\ manager[u] = i}

\* `with manager.get_connection(port)`, lines 139-179, up to the yield, on
\* the object that the caller got: the lookup fails when the object has no
\* _connections yet; an entry is reused or made as in the pool above; a
\* scope that got None keeps the class-wide _global_lock, and a scope that
\* got an adapter keeps the lock of its entry
ManagerLease(t, p, open) ==
    /\ npc[t] = "have"
    /\ \A u \in Threads : ~(npc[u] = "scope" /\ mresult[u] = "none")
    /\ \A u \in ScopesOf(manager[t]) : mport[u] # p
    /\ mport' = [mport EXCEPT ![t] = p]
    /\ LET i == manager[t] IN
         IF ~hasConnections[i]
         THEN /\ mresult' = [mresult EXCEPT ![t] = "raise"]
              /\ npc' = [npc EXCEPT ![t] = "idle"]
              /\ manager' = [manager EXCEPT ![t] = NoInstance]
              /\ UNCHANGED instConnections
         ELSE /\ mresult' = [mresult EXCEPT ![t] =
                               IF instConnections[i][p] \/ open = "opened"
                               THEN "adapter" ELSE "none"]
              /\ instConnections' =
                    IF open = "opened"
                    THEN [instConnections EXCEPT ![i][p] = TRUE]
                    ELSE instConnections
              /\ npc' = [npc EXCEPT ![t] = "scope"]
              /\ UNCHANGED manager
    /\ UNCHANGED <<notSingleton, instance, nInstances, hasConnections>>

\* is object i referenced by somebody else than caller t
Referenced(i, t) ==
    instance = i \/ \E u \in Threads \ {t} : manager[u] = i

\* the scope ends and `manager` goes out of scope (the method returns); an
\* object that nobody references any more is freed with its handles
ManagerLeaseEnd(t) ==
    /\ npc[t] = "scope"
    /\ npc' = [npc EXCEPT ![t] = "idle"]
    /\ manager' = [manager EXCEPT ![t] = NoInstance]
    /\ instConnections' = IF Referenced(manager[t], t) THEN instConnections
                          ELSE [instConnections EXCEPT ![manager[t]] = NoPorts]
    /\ UNCHANGED <<notSingleton, instance, nInstances, hasConnections, mport,
                   mresult>>

SingletonNext ==
    \/ \E t \in Threads : NewCheck(t)
    \/ \E t \in Threads : NewCreate(t)
    \/ \E t \in Threads : NewSetConnections(t)
    \/ \E t \in Threads : NewReturn(t)
    \/ \E t \in Threads, p \in PoolPorts,
          open \in {"absent", "openfails", "opened"} : ManagerLease(t, p, open)
    \/ \E t \in Threads : ManagerLeaseEnd(t)

(***************************************************************************)
(* DEVICE REGISTRY  --  bluetooth_device.py, device_config_loader.py       *)
(***************************************************************************)
\* Identifiers are character sequences, so that the substring comparisons of
\* the command resolution are computed and not tabulated.
IdA == <<"S", "1">>
IdB == <<"S", "1", "0">>
IdX == <<"X", "9">>
EmptyStr == <<>>
DevIds == {IdA, IdB}
DevPorts == {"COM4", "COM5"}
NoPort == ""

\* BluetoothDevice objects live in slots (object identity); a slot that no
\* list references is free and is reused by the next allocation.
Slots == 1..(2 * Cardinality(DevIds))
NoSlot == 0
NoneTime == 0

FreeObj == [used |-> FALSE, device_identifier |-> EmptyStr, port |-> NoPort,
            is_online |-> FALSE, last_seen |-> NoneTime,
            consecutive_failures |-> 0]

\* BluetoothDevice(device_identifier=..., port=...): the dataclass defaults
NewDevice(id, port) ==
    [used |-> TRUE, device_identifier |-> id, port |-> port,
     is_online |-> FALSE, last_seen |-> NoneTime, consecutive_failures |-> 0]

\* load_devices, lines 76-79: the descriptor of an identifier that is already
\* in memory is kept and only its port is written
ExistingReset(dev, port) == NewDevice(dev.device_identifier, port)
ExistingDevice(dev, port) == [dev EXCEPT !.port = port]

\* BluetoothDevice.mark_online
mark_online_keep(dev, now) ==
    [dev EXCEPT !.is_online = TRUE, !.last_seen = now]
mark_online(dev, now) ==
    [dev EXCEPT !.is_online = TRUE, !.last_seen = now,
                !.consecutive_failures = 0]

\* BluetoothDevice.mark_offline
mark_offline_flag(dev) ==
    [dev EXCEPT !.is_online = FALSE]
mark_offline(dev) ==
    [dev EXCEPT !.is_online = FALSE,
                !.consecutive_failures = @ + 1]

\* entries of the "devices" array of bluetooth_devices.json
DictEntry(id, port) == [kind |-> "dict", id |-> id, port |-> port]
NotDictEntry == [kind |-> "notdict", id |-> EmptyStr, port |-> NoPort]
\* the contents the file is given: devices added, removed, moved to another
\* port, listed twice, entries without a port, an entry that is no object,
\* and text that json.load rejects
ConfigContents ==
    {[json |-> TRUE, devices |-> l] : l \in
       {<<>>,
        <<DictEntry(IdA, "COM4")>>,
        <<DictEntry(IdA, "COM5"), DictEntry(IdB, "COM5")>>,
        <<DictEntry(IdB, "COM4")>>,
        <<DictEntry(IdB, NoPort), DictEntry(IdA, "COM4")>>,
        <<DictEntry(IdB, "COM4"), DictEntry(IdB, "COM5")>>,
        <<DictEntry(IdA, "COM5"), NotDictEntry>>}}
        \cup {[json |-> FALSE, devices |-> <<>>]}

Range(s) == {s[i] : i \in 1..Len(s)}
Min(S) == CHOOSE x \in S : \A y \in S : x <= y

\* the slot of the descriptor with this identifier among `slots`, or NoSlot
SlotOf(objects, slots, id) ==
    IF \E s \in slots : objects[s].device_identifier = id
    THEN CHOOSE s \in slots : objects[s].device_identifier = id
    ELSE NoSlot

\* load_devices, lines 67-87: the loop over devices_data.  st.objs is the
\* heap, st.new the new_devices dict (in insertion order), st.err says that
\* an entry raised (an entry that is not an object has no .get).
RECURSIVE MergeEntries(_, _, _, _, _)
MergeEntries(entries, i, existing, pinned, st) ==
    IF i > Len(entries) \/ st.err THEN st
    ELSE LET e == entries[i] IN
      IF e.kind = "notdict" THEN [st EXCEPT !.err = TRUE]
      ELSE IF e.id = EmptyStr \/ e.port = NoPort
      THEN MergeEntries(entries, i + 1, existing, pinned, st)
      ELSE LET old == SlotOf(st.objs, existing, e.id)
               dup == SlotOf(st.objs, Range(st.new) \ existing, e.id)
               free == Min(Slots \ (existing \cup pinned \cup Range(st.new)))
           IN
           IF old # NoSlot
           THEN MergeEntries(entries, i + 1, existing, pinned,
                  [st EXCEPT !.objs[old] = ExistingDevice(@, e.port),
                             !.new = IF old \in Range(st.new) THEN @
                                     ELSE Append(@, old)])
           ELSE IF dup # NoSlot
           THEN MergeEntries(entries, i + 1, existing, pinned,
                  [st EXCEPT !.objs[dup] = NewDevice(e.id, e.port)])
           ELSE MergeEntries(entries, i + 1, existing, pinned,
                  [st EXCEPT !.objs[free] = NewDevice(e.id, e.port),
                             !.new = Append(@, free)])

\* load_devices as a function of the loader's state and the file: the new
\* heap, the new self.devices, the new self.last_modified and the path taken
LoadDevices(objects, devs, lastmod, file, pinned, force) ==
    IF ~file.exists
    THEN [objs |-> objects, devices |-> devs, last_modified |-> lastmod,
          result |-> "missing"]
    ELSE IF ~force /\ file.mtime = lastmod
    THEN [objs |-> objects, devices |-> devs, last_modified |-> lastmod,
          result |-> "cached"]
    ELSE IF ~file.content.json
    THEN [objs |-> objects, devices |-> devs, last_modified |-> lastmod,
          result |-> "badjson"]
    ELSE LET m == MergeEntries(file.content.devices, 1, Range(devs), pinned,
                     [objs |-> objects, new |-> <<>>, err |-> FALSE])
         IN IF m.err
            THEN \* the ports written before the exception stay written;
                 \* descriptors created before it are unreachable
                 [objs |-> [s \in Slots |->
                              IF s \in Range(devs) THEN m.objs[s]
                              ELSE objects[s]],
                  devices |-> devs, last_modified |-> lastmod,
                  result |-> "error"]
            ELSE \* descriptors that no list references any more are freed
                 [objs |-> [s \in Slots |->
                              IF s \in Range(m.new) \cup pinned
                              THEN m.objs[s] ELSE FreeObj],
                  devices |-> m.new, last_modified |-> file.mtime,
                  result |-> "parsed"]


(***************************************************************************)
(* POLLING WORKER  --  bluetooth_polling_worker.py,                        *)
(*                     bluetooth_polling_service.py                        *)
(***************************************************************************)
UuidA == <<"u", "1">>
\* (device key, threshold) pairs that callers enqueue
EnqueueInputs == {<<UuidA, 80>>, <<IdB, 150>>, <<IdX, 80>>}
\* what device_repository.find_by_id does for a key: it gives no record,
\* raises, or gives a record with its identifier
NoRecord == [found |-> FALSE, id |-> EmptyStr, raised |-> FALSE]
LookupRaised == [found |-> FALSE, id |-> EmptyStr, raised |-> TRUE]
DbResults ==
    {NoRecord, LookupRaised}
      \cup {[found |-> TRUE, id |-> i, raised |-> FALSE] : i \in {IdA, IdB, IdX}}
\* what device_service.get_device_by_identifier does in a status handler
LookupOutcomes == {"found", "none", "raise"}
PollOutcomes == {"nolease", "noping", "nodata", "procfail", "ok"}
Tokens == 1..MaxEnqueue

\* no poll_device call has begun; result is "true" or "false" for the value
\* that poll_device returns and "raise" for a call that an exception ends
NoPoll == [outcome |-> "none", result |-> "none"]

NoHist == [polls |-> 0, neverPong |-> TRUE, evOffline |-> 0]
Untracked == [polls |-> 0, neverPong |-> FALSE, evOffline |-> 0]
NoCmdHist == [cycle |-> 0, pre |-> FALSE, polled |-> {}, late |-> FALSE,
              result |-> "queued"]
\* no command has been taken from the queue yet
NoDrain == [lookup |-> "none", wanted |-> EmptyStr, sentTo |-> EmptyStr]

\* the file at start-up: SENSOR-001 on COM4 and a second sensor on COM5
InitialFile ==
    [exists |-> TRUE, mtime |-> 1,
     content |-> [json |-> TRUE,
                  devices |-> <<DictEntry(IdA, "COM4"),
                                DictEntry(IdB, "COM5")>>]]

WorkerInit ==
    /\ configFile = InitialFile
    /\ objs = [s \in Slots |-> FreeObj]
    /\ loaderDevices = <<>>
    /\ last_modified = 0
    /\ loadResult = "none"
    /\ loadTick = FALSE
    /\ running = FALSE
    /\ wpc = "stopped"
    /\ cycle_count = 0
    /\ workerDevices = <<>>
    /\ pollIdx = 0
    /\ ppc = "idle"
    /\ pctx = "none"
    /\ lastLookup = "none"
    /\ lastEvent = "none"
    /\ pollRec = NoPoll
    /\ cyclePolls = <<>>
    /\ pollLease = FALSE
    /\ command_queue = <<>>
    /\ nEnq = 0
    /\ hist = [s \in Slots |-> NoHist]
    /\ dequeued = <<>>
    /\ sendCalls = [k \in Tokens |-> 0]
    /\ cmdHist = [k \in Tokens |-> NoCmdHist]
    /\ drainSnap = {}
    /\ lastDrain = NoDrain

\* the history of a slot restarts when a new descriptor is put into it
HistAfterLoad(newObjs) ==
    [s \in Slots |-> IF newObjs[s].used /\ objs[s].used THEN hist[s]
                     ELSE NoHist]

\* the effect of one load_devices call on the loader and the heap
ApplyLoad(r) ==
    /\ objs' = r.objs
    /\ loaderDevices' = r.devices
    /\ last_modified' = r.last_modified
    /\ loadResult' = r.result
    /\ loadTick' = ~loadTick
    /\ hist' = HistAfterLoad(r.objs)

\* start(), lines 59-74: the first start of the worker
Start ==
    /\ ~running
    /\ wpc = "stopped"
    /\ running' = TRUE
    /\ wpc' = "init"
    /\ UNCHANGED <<notWorker, configFile, registryVars, cycle_count,
                   workerDevices, pollIdx, pollVars, queueVars, hist>>

\* stop(), lines 76-82: clears the flag (the bounded join changes no state)
Stop ==
    /\ running
    /\ running' = FALSE
    /\ UNCHANGED <<notWorker, configFile, registryVars, wpc, cycle_count,
                   workerDevices, pollIdx, pollVars, queueVars, hist>>

\* _run_loop, line 93: the initial load
InitialLoad ==
    /\ wpc = "init"
    /\ LET r == LoadDevices(objs, loaderDevices, last_modified, configFile,
                            {}, TRUE) IN
         /\ ApplyLoad(r)
         /\ workerDevices' = r.devices
    /\ wpc' = "loop"
    /\ UNCHANGED <<notWorker, configFile, running, cycle_count, pollIdx,
                   pollVars, queueVars>>

\* is this cycle one that reloads the registry (line 104)
ReloadsEveryCycle(n) == TRUE
ReloadsInCycle(n) == n % CONFIG_RELOAD_CYCLES = 0

\* _run_loop, lines 95-108: the loop test, the cycle counter and the hot
\* reload of every CONFIG_RELOAD_CYCLES-th cycle
CycleStart ==
    /\ wpc = "loop"
    /\ running
    /\ cycle_count < MaxCycles
    /\ cycle_count' = cycle_count + 1
    /\ IF ReloadsInCycle(cycle_count + 1)
       THEN LET r == LoadDevices(objs, loaderDevices, last_modified,
                                 configFile, {}, TRUE) IN
              /\ ApplyLoad(r)
              /\ workerDevices' = r.devices
       ELSE /\ workerDevices' = workerDevices
            /\ hist' = hist
            /\ UNCHANGED registryVars
    /\ wpc' = "drain"
    /\ drainSnap' = {command_queue[i].tok : i \in 1..Len(command_queue)}
    /\ cyclePolls' = <<>>
    /\ UNCHANGED <<notWorker, configFile, running, pollIdx, ppc, pctx,
                   lastLookup, lastEvent, pollRec, pollLease, command_queue,
                   nEnq, dequeued, sendCalls, cmdHist, lastDrain>>

\* _run_loop, lines 95 and 146: the flag is clear, the loop ends
LoopEnd ==
    /\ wpc = "loop"
    /\ ~running
    /\ wpc' = "ended"
    /\ UNCHANGED <<notWorker, configFile, registryVars, running, cycle_count,
                   workerDevices, pollIdx, pollVars, queueVars, hist>>

\* `a in b` of two Python strings
IsSubstring(a, b) ==
    \E i \in 0..(Len(b) - Len(a)) : SubSeq(b, i + 1, i + Len(a)) = a

\* _process_command_queue, lines 205-215: the comparison with one device
KeyMatches(dId, key) ==
    dId = key \/ IsSubstring(key, dId) \/ IsSubstring(dId, key)

\* _process_command_queue, lines 186-215: the first device of the list that
\* matches the key (NoSlot when there is none)
RECURSIVE FirstMatch(_, _, _, _)
FirstMatch(objects, devs, i, key) ==
    IF i > Len(devs) THEN NoSlot
    ELSE IF KeyMatches(objects[devs[i]].device_identifier, key) THEN devs[i]
    ELSE FirstMatch(objects, devs, i + 1, key)

\* _process_command_queue, lines 162-183 and 204-212: the identifier that
\* the devices are compared with: db_identifier if the lookup gave a record,
\* else the queued key
Wanted(key, dbres) == IF dbres.found THEN dbres.id ELSE key

\* _process_command_queue, lines 162-215: the device that the command is
\* for (NoSlot when there is none)
ResolveStrict(objects, devs, key, dbres) ==
    IF dbres.found THEN FirstMatch(objects, devs, 1, dbres.id) ELSE NoSlot
ResolveCommand(objects, devs, key, dbres) ==
    FirstMatch(objects, devs, 1, Wanted(key, dbres))

\* queue.Queue.put as enqueue_send_threshold_config uses it, line 56
EnqueueFront(q, cmd) == <<cmd>> \o q
EnqueueCommand(q, cmd) == Append(q, cmd)

\* tokens of the commands that are in the queue
Queued == {command_queue[i].tok : i \in 1..Len(command_queue)}

\* enqueue_send_threshold_config, lines 51-57
Enqueue(key, threshold) ==
    /\ nEnq < MaxEnqueue
    /\ nEnq' = nEnq + 1
    /\ command_queue' = EnqueueCommand(command_queue,
                           [tok |-> nEnq + 1, key |-> key, th |-> threshold])
    /\ cmdHist' = [cmdHist EXCEPT ![nEnq + 1] =
                     [NoCmdHist EXCEPT !.cycle = cycle_count,
                                       !.pre = wpc = "drain"]]
    /\ UNCHANGED <<notWorker, configFile, registryVars, loopVars, pollVars,
                   hist, dequeued, sendCalls, drainSnap, lastDrain>>

\* queue.Queue.get raises queue.Empty, lines 155-157
QueueEmptyAlways(q) == TRUE
QueueEmpty(q) == q = <<>>

\* _process_command_queue, lines 153-157: the queue is empty, the drain
\* ends and the poll pass begins (line 113)
DrainEmpty ==
    /\ wpc = "drain"
    /\ QueueEmpty(command_queue)
    /\ wpc' = "polls"
    /\ pollIdx' = 1
    /\ UNCHANGED <<notWorker, configFile, registryVars, running, cycle_count,
                   workerDevices, pollVars, queueVars, hist>>

\* queue.Queue.get as _process_command_queue uses it, line 155: what is
\* left in the queue
AfterGet(q) == Tail(q)

\* _process_command_queue, lines 153-234: one iteration: take the head,
\* look the device up, resolve it in the device list, send or drop
DrainCommand(dbres) ==
    /\ wpc = "drain"
    /\ command_queue # <<>>
    /\ LET cmd == Head(command_queue)
           bDevice == ResolveCommand(objs, workerDevices, cmd.key, dbres)
       IN
         /\ command_queue' = AfterGet(command_queue)
         /\ dequeued' = Append(dequeued, cmd.tok)
         /\ lastDrain' =
              [lookup |-> IF dbres.found THEN "found"
                          ELSE IF dbres.raised THEN "raise" ELSE "none",
               wanted |-> Wanted(cmd.key, dbres),
               sentTo |-> IF bDevice = NoSlot THEN EmptyStr
                          ELSE objs[bDevice].device_identifier]
         /\ sendCalls' = IF bDevice # NoSlot
                         THEN [sendCalls EXCEPT ![cmd.tok] = @ + 1]
                         ELSE sendCalls
         /\ cmdHist' = [cmdHist EXCEPT
              ![cmd.tok].result = IF bDevice # NoSlot THEN "attempted"
                                  ELSE "dropped",
              ![cmd.tok].late =
                 IF bDevice = NoSlot THEN FALSE
                 ELSE objs[bDevice].device_identifier
                         \in cmdHist[cmd.tok].polled]
    /\ UNCHANGED <<notWorker, configFile, registryVars, loopVars, pollVars,
                   hist, nEnq, drainSnap>>

\* _run_loop, lines 119-124: the next device of the list is polled
PollStart ==
    /\ wpc = "polls"
    /\ running
    /\ pollIdx <= Len(workerDevices)
    /\ wpc' = "in_poll"
    /\ ppc' = "exchange"
    /\ pctx' = "none"
    /\ pollRec' = NoPoll
    /\ cyclePolls' = Append(cyclePolls, workerDevices[pollIdx])
    /\ pollLease' = FALSE
    /\ cmdHist' = [k \in Tokens |->
         IF k \in Queued
         THEN [cmdHist[k] EXCEPT !.polled =
                 @ \cup {objs[workerDevices[pollIdx]].device_identifier}]
         ELSE cmdHist[k]]
    /\ UNCHANGED <<notWorker, configFile, registryVars, running, cycle_count,
                   workerDevices, pollIdx, lastLookup, lastEvent,
                   command_queue, nEnq, dequeued, sendCalls, drainSnap,
                   lastDrain, hist>>

\* _run_loop, lines 114-121 and 131-136: no device is left, or the flag was
\* cleared; the cycle is complete and the worker sleeps
PollPassEnd ==
    /\ wpc = "polls"
    /\ pollIdx > Len(workerDevices) \/ ~running
    /\ wpc' = "sleep"
    /\ UNCHANGED <<notWorker, configFile, registryVars, running, cycle_count,
                   workerDevices, pollIdx, pollVars, queueVars, hist>>

\* _sleep_until_next_cycle, lines 236-243
SleepEnd ==
    /\ wpc = "sleep"
    /\ wpc' = "loop"
    /\ UNCHANGED <<notWorker, configFile, registryVars, running, cycle_count,
                   workerDevices, pollIdx, pollVars, queueVars, hist>>

\* the descriptor that poll_device is working on
Polled == workerDevices[pollIdx]

\* poll_device returned or raised: back in the for loop of _run_loop
PollRaiseEndsPass(result) ==
    /\ wpc' = IF result = "raise" THEN "sleep" ELSE "polls"
    /\ pollIdx' = pollIdx + 1
    /\ ppc' = "idle"
    /\ pctx' = "none"
    /\ pollRec' = [pollRec EXCEPT !.result = result]
    /\ pollLease' = FALSE
PollReturns(result) ==
    /\ wpc' = "polls"
    /\ pollIdx' = pollIdx + 1
    /\ ppc' = "idle"
    /\ pctx' = "none"
    /\ pollRec' = [pollRec EXCEPT !.result = result]
    /\ pollLease' = FALSE

\* poll_device, lines 88-143: is the mutex of the port held when the status
\* handler is called: the handler calls are inside the `with` block, which
\* has the mutex unless get_connection yielded None
LeaseSpans(outcome) == outcome # "nolease"

\* poll_device, lines 88-129: the lease, ping, the reading request and the
\* processing of the reading, up to the status handler (or the return)
PollExchange(outcome) ==
    /\ wpc = "in_poll"
    /\ ppc = "exchange"
    /\ IF outcome = "procfail"
       THEN /\ wpc' = "polls"
            /\ pollIdx' = pollIdx + 1
            /\ ppc' = "idle"
            /\ pctx' = "none"
            /\ pollRec' = [outcome |-> outcome, result |-> "false"]
            /\ pollLease' = FALSE
       ELSE /\ ppc' = IF outcome = "ok" THEN "online" ELSE "offline"
            /\ pctx' = IF outcome = "nolease" THEN "nolease" ELSE "try"
            /\ wpc' = wpc
            /\ pollIdx' = pollIdx
            /\ pollRec' = [outcome |-> outcome, result |-> "none"]
            /\ pollLease' = LeaseSpans(outcome)
    /\ hist' = IF outcome \in {"nolease", "noping"} THEN hist
               ELSE [hist EXCEPT ![Polled] = Untracked]
    /\ UNCHANGED <<notWorker, configFile, registryVars, running, cycle_count,
                   workerDevices, lastLookup, lastEvent, cyclePolls,
                   queueVars>>

\* poll_device, lines 90-137: what the call gives when the status handler
\* that it called last returns or raises: the handler of line 92 is called
\* outside the try and the one of line 136 inside the except clause, so
\* their exception leaves poll_device; line 129 returns success (True) after
\* the online handler and the other places return False
PollResult(raised) ==
    IF raised THEN "raise"
    ELSE IF ppc = "online" THEN "true" ELSE "false"

\* _handle_device_online line 319 / _handle_device_offline line 346, and
\* lines 327 / 357: the event is published on an edge whose device resolves
PublishesAlways(wasOther, lookup) == lookup \in {"found", "skipped"}
PublishesOnEdge(wasOther, lookup) == wasOther /\ lookup = "found"

\* where control goes when a status handler returns or raises
AfterHandler(raised) ==
    IF raised /\ pctx = "try"
    THEN \* poll_device, lines 131-137: the except clause marks offline
         /\ ppc' = "offline"
         /\ pctx' = "except"
         /\ wpc' = wpc
         /\ pollIdx' = pollIdx
         /\ pollRec' = pollRec
         /\ pollLease' = pollLease
    ELSE PollReturns(PollResult(raised))

\* _handle_device_online, lines 306-331
HandleOnline(lookup) ==
    /\ wpc = "in_poll"
    /\ ppc = "online"
    /\ LET was_offline == ~objs[Polled].is_online
           looked == IF was_offline THEN lookup ELSE "skipped"
       IN
         /\ ~was_offline => lookup = "found"
         /\ objs' = [objs EXCEPT ![Polled] = mark_online(@, cycle_count)]
         /\ lastLookup' = looked
         /\ lastEvent' = IF PublishesOnEdge(was_offline, looked)
                          THEN "online" ELSE "none"
         /\ hist' = [hist EXCEPT ![Polled] = Untracked]
         /\ AfterHandler(looked = "raise")
    /\ UNCHANGED <<notWorker, configFile, loaderDevices, last_modified,
                   loadResult, loadTick, running, cycle_count, workerDevices,
                   cyclePolls, queueVars>>

\* _handle_device_offline, lines 333-363
HandleOffline(lookup) ==
    /\ wpc = "in_poll"
    /\ ppc = "offline"
    /\ LET was_online == objs[Polled].is_online
           looked == IF was_online THEN lookup ELSE "skipped"
           published == PublishesOnEdge(was_online, looked)
           returns == ~(looked = "raise" /\ pctx = "try")
       IN
         /\ ~was_online => lookup = "found"
         /\ objs' = [objs EXCEPT ![Polled] = mark_offline(@)]
         /\ lastLookup' = looked
         /\ lastEvent' = IF published THEN "offline" ELSE "none"
         /\ hist' = IF ~hist[Polled].neverPong THEN hist
                    ELSE [hist EXCEPT
                      ![Polled].evOffline = IF published THEN @ + 1 ELSE @,
                      ![Polled].polls = IF returns THEN @ + 1 ELSE @]
         /\ AfterHandler(looked = "raise")
    /\ UNCHANGED <<notWorker, configFile, loaderDevices, last_modified,
                   loadResult, loadTick, running, cycle_count, workerDevices,
                   cyclePolls, queueVars>>

\* the device-list file is rewritten (its modification time advances)
EditConfig(content) ==
    /\ configFile.mtime <= MaxEdits
    /\ configFile' = [exists |-> TRUE, mtime |-> configFile.mtime + 1,
                      content |-> content]
    /\ UNCHANGED <<notWorker, registryVars, loopVars, pollVars, queueVars,
                   hist>>

\* the device-list file is deleted
RemoveConfig ==
    /\ configFile.mtime <= MaxEdits
    /\ configFile.exists
    /\ configFile' = [exists |-> FALSE, mtime |-> configFile.mtime + 1,
                      content |-> [json |-> FALSE, devices |-> <<>>]]
    /\ UNCHANGED <<notWorker, registryVars, loopVars, pollVars, queueVars,
                   hist>>

\* app.py, lines 62 and 89: load_devices() of the info and device-list
\* endpoints, in a request context
InfoLoad ==
    /\ LET r == LoadDevices(objs, loaderDevices, last_modified, configFile,
                            Range(workerDevices), FALSE) IN
         ApplyLoad(r)
    /\ UNCHANGED <<notWorker, configFile, loopVars, pollVars, queueVars>>

(***************************************************************************)
(* CONCURRENT LOADS  --  DeviceConfigLoader.load_devices called by the     *)
(* polling loop and by the endpoints of app.py at the same time            *)
(***************************************************************************)
\* the polling loop (forced reload) and a request context (endpoint)
LoadContexts == {"worker", "endpoint"}

NoLoad == [pc |-> "idle", new |-> <<>>, mtime |-> 0, path |-> "none"]

ReloadInit ==
    /\ rcFile = InitialFile
    /\ rcObjs = [s \in Slots |-> FreeObj]
    /\ rcDevices = <<>>
    /\ rcLastModified = 0
    /\ rcWorkerDevices = <<>>
    /\ rcLoad = [c \in LoadContexts |-> NoLoad]

\* the slots that a list or a local variable of a load references
Reachable(devs, workerList, loads) ==
    Range(devs) \cup Range(workerList)
      \cup UNION {Range(loads[c].new) : c \in LoadContexts}

\* objects that nothing references are freed
Collect(objects, devs, workerList, loads) ==
    [s \in Slots |-> IF s \in Reachable(devs, workerList, loads)
                     THEN objects[s] ELSE FreeObj]

\* load_devices, lines 40-87: the file is read and new_devices is built from
\* the descriptors that self.devices has at this moment; load_devices takes
\* no lock.  The orchestrator forces the reload (lines 93 and 104-107), an
\* endpoint does not (app.py, lines 62 and 89).
LoadBuild(c) ==
    /\ rcLoad[c].pc = "idle"
    /\ LET r == LoadDevices(rcObjs, rcDevices, rcLastModified, rcFile,
                            Reachable(rcDevices, rcWorkerDevices, rcLoad),
                            c = "worker")
           mine == IF r.result = "parsed" THEN r.devices ELSE <<>>
           loads == [rcLoad EXCEPT ![c] =
                       [pc |-> IF r.result = "parsed" THEN "built"
                               ELSE "assigned",
                        new |-> mine, mtime |-> r.last_modified,
                        path |-> r.result]]
       IN /\ rcLoad' = loads
          /\ rcObjs' = Collect(r.objs, rcDevices, rcWorkerDevices, loads)
    /\ UNCHANGED <<notReload, rcFile, rcDevices, rcLastModified,
                   rcWorkerDevices>>

\* load_devices, lines 90-91: self.devices = new_devices and
\* self.last_modified = current_mtime
LoadAssign(c) ==
    /\ rcLoad[c].pc = "built"
    /\ rcDevices' = rcLoad[c].new
    /\ rcLastModified' = rcLoad[c].mtime
    /\ rcLoad' = [rcLoad EXCEPT ![c].pc = "assigned", ![c].new = <<>>]
    /\ rcObjs' = Collect(rcObjs, rcDevices', rcWorkerDevices, rcLoad')
    /\ UNCHANGED <<notReload, rcFile, rcWorkerDevices>>

\* load_devices, line 97 (and lines 43, 50, 101, 105): the call returns
\* list(self.devices.values()), which the orchestrator keeps as its device
\* list
LoadReturn(c) ==
    /\ rcLoad[c].pc = "assigned"
    /\ rcLoad' = [rcLoad EXCEPT ![c] = NoLoad]
    /\ rcWorkerDevices' = IF c = "worker" THEN rcDevices ELSE rcWorkerDevices
    /\ rcObjs' = Collect(rcObjs, rcDevices, rcWorkerDevices', rcLoad')
    /\ UNCHANGED <<notReload, rcFile, rcDevices, rcLastModified>>

\* the status tracker, between two loads of the orchestrator: a poll of a
\* device of the orchestrator's list succeeds, or the poll of an online
\* device fails
StatusMark(s, up) ==
    /\ rcLoad["worker"].pc = "idle"
    /\ s \in Range(rcWorkerDevices)
    /\ up # rcObjs[s].is_online
    /\ rcObjs' = [rcObjs EXCEPT ![s] = IF up THEN mark_online(@, 1)
                                       ELSE mark_offline(@)]
    /\ UNCHANGED <<notReload, rcFile, rcDevices, rcLastModified,
                   rcWorkerDevices, rcLoad>>

\* the device-list file is rewritten
ReloadEdit(content) ==
    /\ rcFile.mtime <= MaxEdits
    /\ rcFile' = [exists |-> TRUE, mtime |-> rcFile.mtime + 1,
                  content |-> content]
    /\ UNCHANGED <<notReload, rcObjs, rcDevices, rcLastModified,
                   rcWorkerDevices, rcLoad>>

ReloadNext ==
    \/ \E c \in LoadContexts : LoadBuild(c)
    \/ \E c \in LoadContexts : LoadAssign(c)
    \/ \E c \in LoadContexts : LoadReturn(c)
    \/ \E s \in Slots, up \in BOOLEAN : StatusMark(s, up)
    \/ \E content \in ConfigContents : ReloadEdit(content)

(***************************************************************************)
(* WORKER THREADS  --  BluetoothPollingWorker.start / stop / _run_loop     *)
(***************************************************************************)
\* the contexts that call start() and stop()
Callers == {"c1", "c2"}
LoopIds == 1..MaxLoops
NoLoop == 0

LifecycleInit ==
    /\ thread = NoLoop
    /\ nLoops = 0
    /\ lpc = [l \in LoopIds |-> "unborn"]
    /\ lidx = [l \in LoopIds |-> 0]
    /\ elapsed = [l \in LoopIds |-> 0]
    /\ cpc = [c \in Callers |-> "idle"]
    /\ stopCalled = FALSE

\* start(), lines 60-62: the flag is set, start() returns
StartNoop(c) ==
    /\ cpc[c] = "idle"
    /\ running
    /\ UNCHANGED <<notLifecycle, lifecycleVars, running>>

\* start(), line 60: the flag is clear, start() goes on
StartCheck(c) ==
    /\ cpc[c] = "idle"
    /\ ~running
    /\ cpc' = [cpc EXCEPT ![c] = "start_set"]
    /\ UNCHANGED <<notLifecycle, running, thread, nLoops, lpc, lidx, elapsed,
                   stopCalled>>

\* start(), line 65: self.running = True
StartSet(c) ==
    /\ cpc[c] = "start_set"
    /\ running' = TRUE
    /\ cpc' = [cpc EXCEPT ![c] = "start_spawn"]
    /\ UNCHANGED <<notLifecycle, thread, nLoops, lpc, lidx, elapsed,
                   stopCalled>>

\* start(), lines 67-72: the loop thread is made and started
StartSpawn(c) ==
    /\ cpc[c] = "start_spawn"
    /\ nLoops < MaxLoops
    /\ nLoops' = nLoops + 1
    /\ thread' = nLoops + 1
    /\ lpc' = [lpc EXCEPT ![nLoops + 1] = "init"]
    /\ cpc' = [cpc EXCEPT ![c] = "idle"]
    /\ UNCHANGED <<notLifecycle, running, lidx, elapsed, stopCalled>>

\* stop(), lines 77-79: the flag is clear, stop() returns
StopNoop(c) ==
    /\ cpc[c] = "idle"
    /\ ~running
    /\ stopCalled' = TRUE
    /\ UNCHANGED <<notLifecycle, running, thread, nLoops, lpc, lidx, elapsed,
                   cpc>>

\* stop(), line 77: the flag is set, stop() goes on
StopCheck(c) ==
    /\ cpc[c] = "idle"
    /\ running
    /\ stopCalled' = TRUE
    /\ cpc' = [cpc EXCEPT ![c] = "stop_clear"]
    /\ UNCHANGED <<notLifecycle, running, thread, nLoops, lpc, lidx, elapsed>>

\* stop(), line 82: self.running = False
StopClear(c) ==
    /\ cpc[c] = "stop_clear"
    /\ running' = FALSE
    /\ cpc' = [cpc EXCEPT ![c] = "stop_join"]
    /\ UNCHANGED <<notLifecycle, thread, nLoops, lpc, lidx, elapsed,
                   stopCalled>>

\* stop(), lines 84-87: join(timeout=10) returns when the thread has ended
\* or when the 10 seconds are over, whatever comes first
StopJoin(c) ==
    /\ cpc[c] = "stop_join"
    /\ cpc' = [cpc EXCEPT ![c] = "idle"]
    /\ UNCHANGED <<notLifecycle, running, thread, nLoops, lpc, lidx, elapsed,
                   stopCalled>>

\* a step of loop thread l to position pc
LoopGoes(l, pc) ==
    /\ lpc' = [lpc EXCEPT ![l] = pc]
    /\ UNCHANGED <<notLifecycle, running, thread, nLoops, cpc, stopCalled>>

\* _run_loop, line 93: the initial load
LoopInit(l) ==
    /\ lpc[l] = "init"
    /\ LoopGoes(l, "test")
    /\ UNCHANGED <<lidx, elapsed>>

\* _run_loop, lines 95 and 146: `while self.running`: a cycle begins or the
\* loop ends
LoopTest(l) ==
    /\ lpc[l] = "test"
    /\ LoopGoes(l, IF running THEN "cycle" ELSE "ended")
    /\ UNCHANGED <<lidx, elapsed>>

\* _run_loop, lines 138-144: where the loop goes when an exception leaves
\* the try block of a cycle
ExceptEndsLoop(l) == LoopGoes(l, "ended")
ExceptCaught(l) == LoopGoes(l, "backoff")

\* _run_loop, lines 96-131 and 138-144: a statement of the try block of a
\* cycle raises (the reload, the drain of the command queue, the poll pass
\* outside poll_device).  _sleep_until_next_cycle only compares and calls
\* time.sleep, which raise nothing.
LoopExcept(l) ==
    /\ lpc[l] = "cycle"
    /\ ExceptCaught(l)
    /\ lidx' = [lidx EXCEPT ![l] = 0]
    /\ elapsed' = [elapsed EXCEPT ![l] = 0]

\* _run_loop, line 144: time.sleep(5) is over, back to `while self.running`
LoopBackoffEnd(l) ==
    /\ lpc[l] = "backoff"
    /\ LoopGoes(l, "test")
    /\ UNCHANGED <<lidx, elapsed>>

\* _run_loop, lines 119-121: does the for loop go on to poll a device
PollsNext(idx, flag) == idx < MaxPolls /\ flag

\* _run_loop, lines 119-124: the next device is polled if one is left and
\* the flag is set; else the cycle is complete and the sleep begins
LoopPoll(l) ==
    /\ lpc[l] = "cycle"
    /\ IF PollsNext(lidx[l], running)
       THEN /\ LoopGoes(l, "polling")
            /\ lidx' = [lidx EXCEPT ![l] = @ + 1]
       ELSE /\ LoopGoes(l, "sleep")
            /\ lidx' = [lidx EXCEPT ![l] = 0]
    /\ UNCHANGED elapsed

\* _run_loop, lines 123-129: poll_device returned or raised
LoopPollEnd(l) ==
    /\ lpc[l] = "polling"
    /\ LoopGoes(l, "cycle")
    /\ UNCHANGED <<lidx, elapsed>>

\* _sleep_until_next_cycle, line 241: `elapsed < interval and self.running`
SleepIgnoresFlag(e, flag) == e < MaxSleepChecks
SleepGoesOn(e, flag) == e < MaxSleepChecks /\ flag

\* _sleep_until_next_cycle, lines 236-243: one test of the while loop, with
\* the half-second sleep that follows it
LoopSleepCheck(l) ==
    /\ lpc[l] = "sleep"
    /\ IF SleepGoesOn(elapsed[l], running)
       THEN /\ LoopGoes(l, "sleep")
            /\ elapsed' = [elapsed EXCEPT ![l] = @ + 1]
       ELSE /\ LoopGoes(l, "test")
            /\ elapsed' = [elapsed EXCEPT ![l] = 0]
    /\ UNCHANGED lidx

\* the steps of loop thread l
LoopStep(l) ==
    \/ LoopInit(l)
    \/ LoopTest(l)
    \/ LoopExcept(l)
    \/ LoopBackoffEnd(l)
    \/ LoopPoll(l)
    \/ LoopPollEnd(l)
    \/ LoopSleepCheck(l)

LifecycleNext ==
    \/ \E c \in Callers : StartNoop(c)
    \/ \E c \in Callers : StartCheck(c)
    \/ \E c \in Callers : StartSet(c)
    \/ \E c \in Callers : StartSpawn(c)
    \/ \E c \in Callers : StopNoop(c)
    \/ \E c \in Callers : StopCheck(c)
    \/ \E c \in Callers : StopClear(c)
    \/ \E c \in Callers : StopJoin(c)
    \/ \E l \in LoopIds : LoopInit(l)
    \/ \E l \in LoopIds : LoopTest(l)
    \/ \E l \in LoopIds : LoopExcept(l)
    \/ \E l \in LoopIds : LoopBackoffEnd(l)
    \/ \E l \in LoopIds : LoopPoll(l)
    \/ \E l \in LoopIds : LoopPollEnd(l)
    \/ \E l \in LoopIds : LoopSleepCheck(l)

\* start() and stop() are called by one context only, one call after the
\* other
Owner == "c1"
RestartNext ==
    \/ StartNoop(Owner)
    \/ StartCheck(Owner)
    \/ StartSet(Owner)
    \/ StartSpawn(Owner)
    \/ StopNoop(Owner)
    \/ StopCheck(Owner)
    \/ StopClear(Owner)
    \/ StopJoin(Owner)
    \/ \E l \in LoopIds : LoopStep(l)

(***************************************************************************)
(* TOPIC MATCHING  --  MqttConnectionManager._topic_matches                *)
(***************************************************************************)
\* Topics and patterns are character sequences; a level is what stands
\* between two separators.
Sep == "/"
PatternChars == {"a", "b", "/", "+", "#"}
TopicChars == {"a", "b", "/"}
\* the strings of at most n characters of a set, the empty one left out
RECURSIVE StringsUpTo(_, _)
StringsUpTo(chars, n) ==
    IF n = 0 THEN {}
    ELSE LET shorter == StringsUpTo(chars, n - 1) IN
         {<<c>> : c \in chars} \cup shorter
           \cup {Append(s, c) : s \in shorter, c \in chars}

\* str.split('/'), lines 296-297
RECURSIVE Split(_)
Split(s) ==
    IF \A i \in 1..Len(s) : s[i] # Sep THEN <<s>>
    ELSE LET i == CHOOSE k \in 1..Len(s) :
                    s[k] = Sep /\ \A j \in 1..(k - 1) : s[j] # Sep
         IN <<SubSeq(s, 1, i - 1)>> \o Split(SubSeq(s, i + 1, Len(s)))

\* all(p == '+' or p == t for p, t in zip(ps, ts)), lines 305-308 and
\* 315-318: zip stops at the end of the shorter list
ZipAllMatch(ps, ts) ==
    \A i \in 1..(IF Len(ps) < Len(ts) THEN Len(ps) ELSE Len(ts)) :
        ps[i] = <<"+">> \/ ps[i] = ts[i]

\* topic_parts[:n], line 307
Slice(ts, n) == SubSeq(ts, 1, IF n < Len(ts) THEN n ELSE Len(ts))

\* _topic_matches, lines 296-318
TopicMatches(pattern, topic) ==
    LET pattern_parts == Split(pattern)
        topic_parts == Split(topic)
        prefix == SubSeq(pattern_parts, 1, Len(pattern_parts) - 1)
    IN IF <<"#">> \in Range(pattern_parts)
          /\ pattern_parts[Len(pattern_parts)] = <<"#">>
       THEN ZipAllMatch(prefix, Slice(topic_parts, Len(prefix)))
       ELSE IF Len(pattern_parts) # Len(topic_parts) THEN FALSE
       ELSE ZipAllMatch(pattern_parts, topic_parts)

NoMatchCall == [pattern |-> <<>>, topic |-> <<>>, result |-> FALSE]

MatchInit == matchCall = NoMatchCall

\* a call of _topic_matches(pattern, topic)
TopicMatchCall(pattern, topic) ==
    /\ matchCall' = [pattern |-> pattern, topic |-> topic,
                     result |-> TopicMatches(pattern, topic)]
    /\ UNCHANGED notMatch

\* one call is followed per behaviour: the function keeps no state between
\* calls
MatchNext ==
    /\ matchCall = NoMatchCall
    /\ \E p \in StringsUpTo(PatternChars, MaxPatternLen),
          t \in StringsUpTo(TopicChars, MaxTopicLen) : TopicMatchCall(p, t)

(***************************************************************************)
(* COMMAND SENDER  --  command_sender.py, SerialClientAdapter              *)
(***************************************************************************)
\* BluetoothConfig.TOPIC_CONFIG_THRESHOLD and TOPIC_CONFIG_INTERVAL
TOPIC_CONFIG_THRESHOLD == "config/threshold"
TOPIC_CONFIG_INTERVAL == "config/interval"

\* the arguments of set_threshold and set_interval
SenderValues == (0 - MaxValue)..MaxValue

\* set_threshold, line 78: `0 <= threshold <= 100`
ValidThresholdAny(threshold) == TRUE
ValidThreshold(threshold) == 0 <= threshold /\ threshold <= 100

\* set_interval, line 101: not `seconds < 1`
ValidInterval(seconds) == ~(seconds < 1)

\* SerialClientAdapter.send_message, lines 46-53, with _send_raw, lines
\* 71-81: the envelope is serialised and given to one write of the serial
\* handle; the result is False when that write raises; nothing is read
SendMessage(message, writeOk) ==
    [writes |-> <<message>>, reads |-> 0, result |-> writeOk]

\* a call that returns False before it gets to the transport
Rejected == [writes |-> <<>>, reads |-> 0, result |-> FALSE]

NoSenderCall == [op |-> "none", arg |-> 0, writeOk |-> FALSE,
                 done |-> Rejected]

SenderInit == senderCall = NoSenderCall

\* set_threshold, lines 68-89; writeOk: the write of the serial handle does
\* not raise
SetThreshold(threshold, writeOk) ==
    /\ senderCall' =
          [op |-> "set_threshold", arg |-> threshold, writeOk |-> writeOk,
           done |-> IF ~ValidThreshold(threshold) THEN Rejected
                    ELSE SendMessage([topic |-> TOPIC_CONFIG_THRESHOLD,
                                      data |-> threshold], writeOk)]
    /\ UNCHANGED notSender

\* set_interval, lines 91-112
SetInterval(seconds, writeOk) ==
    /\ senderCall' =
          [op |-> "set_interval", arg |-> seconds, writeOk |-> writeOk,
           done |-> IF ~ValidInterval(seconds) THEN Rejected
                    ELSE SendMessage([topic |-> TOPIC_CONFIG_INTERVAL,
                                      data |-> seconds], writeOk)]
    /\ UNCHANGED notSender

\* the sender is called once with each argument and each outcome of the
\* write
SenderNext ==
    /\ senderCall = NoSenderCall
    /\ \/ \E v \in SenderValues, w \in BOOLEAN : SetThreshold(v, w)
       \/ \E v \in SenderValues, w \in BOOLEAN : SetInterval(v, w)

(***************************************************************************)
(* RESPONSE WAIT  --  SerialClientAdapter.send_and_wait_response, and ping  *)
(* and request_current_reading of BluetoothCommandSender                   *)
(***************************************************************************)
\* BluetoothConfig.TOPIC_COMMAND_PONG and TOPIC_RESPONSE_CURRENT_READING
TOPIC_COMMAND_PONG == "command/pong"
TOPIC_RESPONSE_CURRENT_READING == "response/current_reading"

\* the lines that readline returns: text that is no JSON, a JSON value that
\* is no object, and envelopes (JSON objects) with a topic, with or without
\* a data field
NoData == "none"
TextLine == [kind |-> "text", topic |-> "", data |-> NoData]
ValueLine == [kind |-> "value", topic |-> "", data |-> NoData]
Envelope(topic, data) == [kind |-> "object", topic |-> topic, data |-> data]
Lines ==
    {TextLine, ValueLine,
     Envelope(TOPIC_COMMAND_PONG, NoData),
     Envelope(TOPIC_RESPONSE_CURRENT_READING, "fill"),
     Envelope(TOPIC_RESPONSE_CURRENT_READING, NoData),
     Envelope("sensor/status", "fill")}
\* send_and_wait_response returned None
NoLine == [kind |-> "none", topic |-> "", data |-> NoData]

\* the expected_topic of ping (line 39) and of request_current_reading
\* (line 59)
ExpectedTopic(op) ==
    IF op = "ping" THEN TOPIC_COMMAND_PONG ELSE TOPIC_RESPONSE_CURRENT_READING

\* send_and_wait_response, lines 66-70: _parse_raw_message gives {} for text
\* that is no JSON, parsed.get raises for a value that is no object (the
\* except clause goes on), and an object is returned if its topic is the
\* expected one
Accepts(line, expected_topic) ==
    line.kind = "object" /\ line.topic = expected_topic

\* ping, line 43, and request_current_reading, lines 63-66: what the caller
\* gets for a response
Returns(op, response) ==
    IF op = "ping" THEN IF response # NoLine THEN "true" ELSE "false"
    ELSE IF response # NoLine THEN response.data ELSE NoData

NoWait == [pc |-> "idle", op |-> "none", clock |-> 0, deadline |-> 0,
           readStart |-> 0, lines |-> <<>>, response |-> NoLine,
           ret |-> "none"]

WaitInit == wait = NoWait

\* the call is over with this response
WaitDone(response) ==
    [wait EXCEPT !.pc = "done", !.response = response,
                 !.ret = Returns(wait.op, response)]

\* send_and_wait_response, lines 55-59, called by ping or by
\* request_current_reading: the request is written (or the write raises and
\* None is returned) and the deadline is set
WaitBegin(op, writeOk) ==
    /\ wait.pc = "idle"
    /\ wait' = IF writeOk
               THEN [wait EXCEPT !.pc = "loop", !.op = op,
                                 !.deadline = wait.clock + TIMEOUT]
               ELSE [wait EXCEPT !.pc = "done", !.op = op,
                                 !.ret = Returns(op, NoLine)]
    /\ UNCHANGED notWait

\* send_and_wait_response, lines 60-62 and 71: `while time.time() <
\* deadline`: a readline begins, or None is returned
WaitTest ==
    /\ wait.pc = "loop"
    /\ wait' = IF wait.clock < wait.deadline
               THEN [wait EXCEPT !.pc = "reading", !.readStart = wait.clock]
               ELSE WaitDone(NoLine)
    /\ UNCHANGED notWait

\* a second passes while readline waits for a line
WaitTick ==
    /\ wait.pc = "reading"
    /\ wait.clock < wait.readStart + SerialTimeout
    /\ wait' = [wait EXCEPT !.clock = @ + 1]
    /\ UNCHANGED notWait

\* _read_raw_message, lines 91-93: readline returns b'' when the read
\* timeout of the handle is over (the argument timeout=0.1 is not used);
\* line 63: `if not raw: continue`
WaitReadTimeout ==
    /\ wait.pc = "reading"
    /\ wait.clock = wait.readStart + SerialTimeout
    /\ wait' = [wait EXCEPT !.pc = "loop"]
    /\ UNCHANGED notWait

\* send_and_wait_response, lines 61-70: readline returns a line that the
\* device has sent; it is returned or the loop goes on
WaitLine(line) ==
    /\ wait.pc = "reading"
    /\ wait.clock < wait.readStart + SerialTimeout
    /\ Len(wait.lines) < MaxLines
    /\ LET got == [wait EXCEPT !.lines =
                       Append(@, [line |-> line, at |-> wait.clock])] IN
         wait' = IF Accepts(line, ExpectedTopic(wait.op))
                 THEN [got EXCEPT !.pc = "done", !.response = line,
                                  !.ret = Returns(wait.op, line)]
                 ELSE [got EXCEPT !.pc = "loop"]
    /\ UNCHANGED notWait

WaitNext ==
    \/ \E op \in {"ping", "read"}, w \in BOOLEAN : WaitBegin(op, w)
    \/ WaitTest
    \/ WaitTick
    \/ WaitReadTimeout
    \/ \E line \in Lines : WaitLine(line)

(***************************************************************************)
(* SERIAL LINK  --  what SerialClientAdapter writes to and reads from the  *)
(* serial handle of a pool entry, over the leases that reuse the handle    *)
(***************************************************************************)
\* BluetoothConfig.TOPIC_COMMAND_PING and TOPIC_REQUEST_CURRENT_READING
TOPIC_COMMAND_PING == "command/ping"
TOPIC_REQUEST_CURRENT_READING == "request/current_reading"

\* the newline character
LF == "LF"

\* the message that ping (lines 32-35), request_current_reading (lines
\* 52-55) and set_threshold build
RequestMessage(op) ==
    IF op = "ping" THEN [topic |-> TOPIC_COMMAND_PING, data |-> "{}"]
    ELSE IF op = "read"
    THEN [topic |-> TOPIC_REQUEST_CURRENT_READING, data |-> "{}"]
    ELSE [topic |-> TOPIC_CONFIG_THRESHOLD, data |-> "threshold"]

\* _serialize_message, lines 98-100: json.dumps gives the text of one JSON
\* object with the keys topic and data, and no newline
SerializeMessage(message) == <<"{", message.topic, message.data, "}">>

\* _send_raw, lines 74-85: the handle is a serial.Serial (_open_serial), it
\* has `write`, and the encoded text is what is written
SendRaw(message) == SerializeMessage(message)

\* the line with which the device answers a request
AnswerTo(op) ==
    IF op = "ping" THEN Envelope(TOPIC_COMMAND_PONG, NoData)
    ELSE Envelope(TOPIC_RESPONSE_CURRENT_READING, "fill")

NoExchange == [pc |-> "idle", op |-> "none", req |-> 0, got |-> 0,
               ret |-> "none"]

LinkInit ==
    /\ tx = <<>>
    /\ rx = <<>>
    /\ requests = <<>>
    /\ answered = {}
    /\ xch = NoExchange

\* ping or request_current_reading, through send_and_wait_response lines
\* 55-59: the request is written to the handle and the wait begins.  The
\* handle is the one of the pool entry; a lease that ends and the next one
\* that begins leave it and its input buffer as they are (get_connection,
\* lines 170-181; connect and disconnect of the adapter do nothing)
LinkRequest(op) ==
    /\ xch.pc # "waiting"
    /\ Len(requests) < MaxRequests
    /\ tx' = tx \o SendRaw(RequestMessage(op))
    /\ requests' = Append(requests, op)
    /\ xch' = [pc |-> "waiting", op |-> op, req |-> Len(requests) + 1,
               got |-> 0, ret |-> "none"]
    /\ UNCHANGED <<notLink, rx, answered>>

\* set_threshold lines 68-89 through send_message lines 46-53: the message
\* is written and nothing is read
LinkSendOnly ==
    /\ xch.pc # "waiting"
    /\ Len(requests) < MaxRequests
    /\ tx' = tx \o SendRaw(RequestMessage("threshold"))
    /\ requests' = Append(requests, "threshold")
    /\ UNCHANGED <<notLink, rx, answered, xch>>

\* the device answers a request that it has received, at any time after
\* the request was written
DeviceAnswers(r) ==
    /\ r \in 1..Len(requests)
    /\ requests[r] \in {"ping", "read"}
    /\ r \notin answered
    /\ rx' = Append(rx, [line |-> AnswerTo(requests[r]), req |-> r])
    /\ answered' = answered \cup {r}
    /\ UNCHANGED <<notLink, tx, requests, xch>>

\* send_and_wait_response, lines 60-70: readline takes the oldest line of
\* the input buffer; it is returned when its topic is the expected one
LinkRead ==
    /\ xch.pc = "waiting"
    /\ rx # <<>>
    /\ rx' = Tail(rx)
    /\ xch' = IF Accepts(Head(rx).line, ExpectedTopic(xch.op))
              THEN [xch EXCEPT !.pc = "done", !.got = Head(rx).req,
                               !.ret = Returns(xch.op, Head(rx).line)]
              ELSE xch
    /\ UNCHANGED <<notLink, tx, requests, answered>>

\* send_and_wait_response, lines 60 and 71: the deadline passes with
\* nothing to read and None is returned
LinkDeadline ==
    /\ xch.pc = "waiting"
    /\ rx = <<>>
    /\ xch' = [xch EXCEPT !.pc = "done", !.ret = Returns(xch.op, NoLine)]
    /\ UNCHANGED <<notLink, tx, rx, requests, answered>>

LinkNext ==
    \/ \E op \in {"ping", "read"} : LinkRequest(op)
    \/ LinkSendOnly
    \/ \E r \in 1..MaxRequests : DeviceAnswers(r)
    \/ LinkRead
    \/ LinkDeadline

(***************************************************************************)
(* BUS CLIENT  --  src/shared/infrastructure/mqtt/connection_manager.py    *)
(***************************************************************************)
PublishTopics == {<<"cm", "sensors">>}
\* the (pattern, handler) pairs that callers subscribe, as strings of
\* characters: the exact topic "a/b", the patterns "a/b/#" and "+", and "+"
\* registered again with another handler
SubscribeInputs == {<<<<"a", "/", "b">>, "h1">>,
                    <<<<"a", "/", "b", "/", "#">>, "h2">>,
                    <<<<"+">>, "h1">>, <<<<"+">>, "h2">>}
\* the topics of the messages that arrive: "a", "b", "a/b" and "a/b/a"
MessageTopics == {<<"a">>, <<"b">>, <<"a", "/", "b">>,
                  <<"a", "/", "b", "/", "a">>}
NoHandler == "none"
\* what becomes of a message: its payload is not JSON, or its handler (if
\* one is found) returns or raises
MessageOutcomes == {"badjson", "handled", "raises"}

Keys(table) == {table[i].pattern : i \in 1..Len(table)}

\* self.message_handlers[topic] = handler, line 104: a dict keeps the place
\* of a key that it already has
DictPut(table, p, h) ==
    IF p \in Keys(table)
    THEN [i \in 1..Len(table) |->
            IF table[i].pattern = p THEN [pattern |-> p, handler |-> h]
            ELSE table[i]]
    ELSE Append(table, [pattern |-> p, handler |-> h])

NoOp == [op |-> "none", arg |-> <<>>, sawConnected |-> FALSE,
         result |-> FALSE, clientCalled |-> FALSE, handler |-> NoHandler,
         failed |-> "none"]
BusOp(op, arg, saw, res, called) ==
    [op |-> op, arg |-> arg, sawConnected |-> saw, result |-> res,
     clientCalled |-> called, handler |-> NoHandler, failed |-> "none"]

\* no iteration is going on; else pos is the place of the next key and used
\* is the size of the dict when the iterator was made
NoIter == [pos |-> 0, used |-> 0]
\* no search is going on; else the iterator and the topic that is looked up
NoSearch == [pos |-> 0, used |-> 0, topic |-> <<>>]

BusInit ==
    /\ connected = FALSE
    /\ reconnecting = FALSE
    /\ message_handlers = <<>>
    /\ sock = FALSE
    /\ connackPending = FALSE
    /\ loopOn = FALSE
    /\ issuedSubs = {}
    /\ resub = NoIter
    /\ search = NoSearch
    /\ timerPending = 0
    /\ busOp = NoOp
    /\ downSince = FALSE

\* _schedule_reconnect, lines 320-339: the new values of the reconnecting
\* flag and of the number of sleeping timer threads
ScheduleReconnect ==
    IF reconnecting
    THEN [reconnecting |-> TRUE, timers |-> timerPending]
    ELSE [reconnecting |-> TRUE, timers |-> timerPending + 1]

\* connect(), lines 52-74, with the outcome of client.connect
ConnectBody(ok) ==
    IF ok
    THEN /\ sock' = TRUE
         /\ connackPending' = TRUE
         /\ loopOn' = TRUE
         /\ issuedSubs' = {}
         /\ reconnecting' = reconnecting
    ELSE /\ reconnecting' = ScheduleReconnect.reconnecting
         /\ UNCHANGED <<sock, connackPending, loopOn, issuedSubs>>

\* connect() called by the application
BusConnect(ok) ==
    /\ ok \/ reconnecting \/ timerPending < MaxTimers
    /\ ConnectBody(ok)
    /\ timerPending' = IF ok THEN timerPending ELSE ScheduleReconnect.timers
    /\ busOp' = BusOp("connect", <<>>, connected, ok, TRUE)
    /\ UNCHANGED <<notBus, resub, search, connected, message_handlers, downSince>>

\* the reconnect() closure of _schedule_reconnect, lines 332-336, when its
\* sleep ends
TimerFire(ok) ==
    /\ timerPending > 0
    /\ IF connected
       THEN /\ timerPending' = timerPending - 1
            /\ UNCHANGED <<sock, connackPending, loopOn, issuedSubs,
                           reconnecting>>
       ELSE /\ ConnectBody(ok)
            /\ timerPending' = IF ok \/ reconnecting THEN timerPending - 1
                               ELSE timerPending
    /\ busOp' = BusOp("timer", <<>>, connected, ok, ~connected)
    /\ UNCHANGED <<notBus, resub, search, connected, message_handlers, downSince>>

\* disconnect(), lines 76-82
BusDisconnect ==
    /\ loopOn' = FALSE
    /\ sock' = FALSE
    /\ connackPending' = FALSE
    /\ issuedSubs' = {}
    /\ connected' = FALSE
    /\ busOp' = BusOp("disconnect", <<>>, connected, TRUE, TRUE)
    /\ UNCHANGED <<notBus, resub, search, reconnecting, message_handlers, timerPending,
                   downSince>>

\* subscribe(), lines 102-107: is the handler registered, given whether
\* client.subscribe returned MQTT_ERR_SUCCESS
Registers(subscribeOk) == subscribeOk

\* subscribe(), lines 84-107; client.subscribe succeeds when the client has
\* a socket and returns MQTT_ERR_NO_CONN when it has none
Subscribe(p, h) ==
    /\ message_handlers' = IF Registers(sock)
                           THEN DictPut(message_handlers, p, h)
                           ELSE message_handlers
    /\ issuedSubs' = IF sock THEN issuedSubs \cup {p} ELSE issuedSubs
    /\ busOp' = BusOp("subscribe", p, connected, sock, TRUE)
    /\ UNCHANGED <<notBus, resub, search, connected, reconnecting, sock, connackPending,
                   loopOn, timerPending, downSince>>

\* publish(), lines 122-149: does it get to client.publish (line 131)
CallsClientAlways(flag) == TRUE
CallsClient(flag) == flag

\* publish(), lines 109-149, with the outcome of client.publish
Publish(t, sent) ==
    /\ busOp' = BusOp("publish", t, connected,
                      CallsClient(connected) /\ sent, CallsClient(connected))
    /\ UNCHANGED <<notBus, resub, search, connected, reconnecting, message_handlers, sock,
                   connackPending, loopOn, issuedSubs, timerPending,
                   downSince>>

\* _on_connect with rc = 0, lines 163-170: the flags are set and the loop
\* over message_handlers.keys() begins
OnConnectOk ==
    /\ sock
    /\ connackPending
    /\ resub = NoIter
    /\ search = NoSearch
    /\ connackPending' = FALSE
    /\ connected' = TRUE
    /\ reconnecting' = FALSE
    /\ resub' = IF message_handlers = <<>> THEN NoIter
                ELSE [pos |-> 1, used |-> Len(message_handlers)]
    /\ downSince' = FALSE
    /\ busOp' = BusOp("on_connect", <<>>, connected, TRUE, TRUE)
    /\ UNCHANGED <<notBus, search, message_handlers, sock, loopOn,
                   issuedSubs, timerPending>>

\* the dict iterator raises RuntimeError when the size of the dict is not
\* the size it had when the iterator was made
IteratorFails(table, it) == Len(table) # it.used

\* _on_connect, lines 171-173: one turn of the loop: the next key is
\* subscribed, or the iterator ends or raises; client.subscribe reaches the
\* broker only while the client has a socket
ResubscribeStep ==
    /\ resub # NoIter
    /\ IF IteratorFails(message_handlers, resub) \/ resub.pos > resub.used
       THEN /\ resub' = NoIter
            /\ issuedSubs' = issuedSubs
       ELSE /\ resub' = [resub EXCEPT !.pos = @ + 1]
            /\ issuedSubs' = IF sock
                             THEN issuedSubs \cup
                                    {message_handlers[resub.pos].pattern}
                             ELSE issuedSubs
    /\ UNCHANGED <<notBus, search, connected, reconnecting, message_handlers,
                   sock, connackPending, loopOn, timerPending, busOp,
                   downSince>>

\* _on_connect with rc # 0, lines 174-185: the broker refused
OnConnectRefused ==
    /\ sock
    /\ connackPending
    /\ resub = NoIter
    /\ search = NoSearch
    /\ reconnecting \/ timerPending < MaxTimers
    /\ connackPending' = FALSE
    /\ connected' = FALSE
    /\ reconnecting' = ScheduleReconnect.reconnecting
    /\ timerPending' = ScheduleReconnect.timers
    /\ busOp' = BusOp("on_connect", <<>>, connected, FALSE, FALSE)
    /\ UNCHANGED <<notBus, resub, search, message_handlers, sock, loopOn, issuedSubs,
                   downSince>>

\* _on_disconnect with rc # 0, lines 187-198: the connection was lost
OnDisconnect ==
    /\ sock
    /\ loopOn
    /\ resub = NoIter
    /\ search = NoSearch
    /\ reconnecting \/ timerPending < MaxTimers
    /\ sock' = FALSE
    /\ connackPending' = FALSE
    /\ issuedSubs' = {}
    /\ connected' = FALSE
    /\ reconnecting' = ScheduleReconnect.reconnecting
    /\ timerPending' = ScheduleReconnect.timers
    /\ downSince' = TRUE
    /\ busOp' = BusOp("on_disconnect", <<>>, connected, FALSE, FALSE)
    /\ UNCHANGED <<notBus, resub, search, message_handlers, loopOn>>

\* the network loop of the client library connects again by itself after a
\* lost connection
LibraryReconnect ==
    /\ loopOn
    /\ ~sock
    /\ sock' = TRUE
    /\ connackPending' = TRUE
    /\ issuedSubs' = {}
    /\ UNCHANGED <<notBus, resub, search, connected, reconnecting, message_handlers, loopOn,
                   timerPending, busOp, downSince>>

\* _find_handler, lines 251-277: the handler under the exact key, else the
\* handler of the first key in the order of the dict that _topic_matches
\* accepts, else None
FindHandler(table, topic) ==
    IF topic \in Keys(table)
    THEN table[CHOOSE i \in 1..Len(table) : table[i].pattern = topic].handler
    ELSE LET hits == {i \in 1..Len(table) :
                        TopicMatches(table[i].pattern, topic)}
         IN IF hits = {} THEN NoHandler ELSE table[Min(hits)].handler

\* _on_message, lines 232-249: what a message that was not handled does to
\* the connection: the flags and the sleeping reconnect timers afterwards
MessageTearsDown(failure) ==
    IF failure = "none"
    THEN [connected |-> connected, reconnecting |-> reconnecting,
          timers |-> timerPending]
    ELSE [connected |-> FALSE, reconnecting |-> TRUE,
          timers |-> IF timerPending < MaxTimers THEN timerPending + 1
                     ELSE timerPending]
MessageEffect(failure) ==
    [connected |-> connected, reconnecting |-> reconnecting,
     timers |-> timerPending]

\* _on_message, lines 227-249: the callback ends.  parses: the payload was
\* JSON; handler: the handler that was called; failure: "badjson" (lines
\* 216-221), "iter" (the dict iterator of _find_handler raised, lines
\* 244-248), "nohandler" (line 241), "raise" (the handler raised, lines
\* 235-239) or "none"
MessageDone(topic, parses, handler, failure) ==
    /\ busOp' = [BusOp("message", topic, connected, parses, FALSE)
                   EXCEPT !.handler = handler, !.failed = failure]
    /\ search' = NoSearch
    /\ connected' = MessageEffect(failure).connected
    /\ reconnecting' = MessageEffect(failure).reconnecting
    /\ timerPending' = MessageEffect(failure).timers
    /\ UNCHANGED <<notBus, resub, message_handlers, sock, connackPending,
                   loopOn, issuedSubs, downSince>>

\* _on_message, lines 202-230 and _find_handler, lines 263-269, called by
\* the network loop with a message of the broker: a payload that is not
\* JSON ends the callback, a topic that is a key of the dict gets the handler
\* under it, else the loop over the items of the dict begins
OnMessage(topic, outcome) ==
    /\ sock
    /\ loopOn
    /\ resub = NoIter
    /\ search = NoSearch
    /\ IF outcome = "badjson"
       THEN MessageDone(topic, FALSE, NoHandler, "badjson")
       ELSE IF topic \in Keys(message_handlers)
       THEN MessageDone(topic, TRUE, FindHandler(message_handlers, topic),
                        IF outcome = "raises" THEN "raise" ELSE "none")
       ELSE /\ outcome = "handled"
            /\ search' = [pos |-> 1, used |-> Len(message_handlers),
                          topic |-> topic]
            /\ UNCHANGED <<notBus, resub, connected, reconnecting,
                           message_handlers, sock, connackPending, loopOn,
                           issuedSubs, timerPending, busOp, downSince>>

\* _find_handler, lines 271-277: one turn of the loop over
\* self.message_handlers.items(): the iterator raises or ends, or the next
\* pattern is tried and its handler called (raises: the handler raised)
SearchStep(raises) ==
    /\ search # NoSearch
    /\ IF IteratorFails(message_handlers, search)
       THEN ~raises /\ MessageDone(search.topic, TRUE, NoHandler, "iter")
       ELSE IF search.pos > search.used
       THEN ~raises /\ MessageDone(search.topic, TRUE, NoHandler, "nohandler")
       ELSE IF TopicMatches(message_handlers[search.pos].pattern, search.topic)
       THEN MessageDone(search.topic, TRUE,
                        message_handlers[search.pos].handler,
                        IF raises THEN "raise" ELSE "none")
       ELSE /\ ~raises
            /\ search' = [search EXCEPT !.pos = @ + 1]
            /\ UNCHANGED <<notBus, resub, connected, reconnecting,
                           message_handlers, sock, connackPending, loopOn,
                           issuedSubs, timerPending, busOp, downSince>>

BusNext ==
    \/ \E ok \in BOOLEAN : BusConnect(ok)
    \/ \E ok \in BOOLEAN : TimerFire(ok)
    \/ BusDisconnect
    \/ \E c \in SubscribeInputs : Subscribe(c[1], c[2])
    \/ \E t \in PublishTopics, sent \in BOOLEAN : Publish(t, sent)
    \/ OnConnectOk
    \/ ResubscribeStep
    \/ OnConnectRefused
    \/ OnDisconnect
    \/ LibraryReconnect

\* the bus client while messages arrive: the dispatch of inbound messages,
\* with the subscriptions, the connect callback and the loss of the
\* connection that go on around it
DispatchNext ==
    \/ BusConnect(TRUE)
    \/ \E c \in SubscribeInputs : Subscribe(c[1], c[2])
    \/ OnConnectOk
    \/ ResubscribeStep
    \/ OnDisconnect
    \/ LibraryReconnect
    \/ \E t \in MessageTopics, o \in MessageOutcomes : OnMessage(t, o)
    \/ \E raises \in BOOLEAN : SearchStep(raises)

vars == <<poolVars, workerVars, busVars, matchVars, senderVars, singletonVars,
          lifecycleVars, waitVars, linkVars, reloadVars>>

\* the polling loop over a device list that does not change: the status
\* tracker
TrackerNext ==
    \/ Start
    \/ Stop
    \/ InitialLoad
    \/ CycleStart
    \/ LoopEnd
    \/ DrainEmpty
    \/ PollStart
    \/ PollPassEnd
    \/ SleepEnd
    \/ \E o \in PollOutcomes : PollExchange(o)
    \/ \E l \in LookupOutcomes : HandleOnline(l)
    \/ \E l \in LookupOutcomes : HandleOffline(l)

\* the polling loop while the device-list file is edited and the endpoints
\* load it: the device registry.  The worker is not stopped; a poll fails
\* at the ping or succeeds, and a lookup finds the record or raises: the
\* other outcomes change a descriptor as one of these does.
RegistryNext ==
    \/ Start
    \/ InitialLoad
    \/ CycleStart
    \/ DrainEmpty
    \/ PollStart
    \/ PollPassEnd
    \/ SleepEnd
    \/ \E o \in {"noping", "ok"} : PollExchange(o)
    \/ \E l \in {"found", "raise"} : HandleOnline(l)
    \/ \E l \in {"found", "raise"} : HandleOffline(l)
    \/ \E c \in ConfigContents : EditConfig(c)
    \/ RemoveConfig
    \/ InfoLoad

\* the polling loop while callers enqueue commands: the command queue.  The
\* polls are those that end without a status update: what a poll does to
\* its descriptor is nothing to the queue.
QueueNext ==
    \/ Start
    \/ Stop
    \/ InitialLoad
    \/ CycleStart
    \/ LoopEnd
    \/ DrainEmpty
    \/ PollStart
    \/ PollPassEnd
    \/ SleepEnd
    \/ PollExchange("procfail")
    \/ \E c \in EnqueueInputs : Enqueue(c[1], c[2])
    \/ \E r \in DbResults : DrainCommand(r)

\* the state after construction of the three components
Init ==
    /\ PoolInit /\ WorkerInit /\ BusInit /\ MatchInit /\ SenderInit
    /\ SingletonInit /\ LifecycleInit /\ WaitInit /\ LinkInit
    /\ ReloadInit

SpecPool == Init /\ [][PoolNext]_vars
SpecTracker == Init /\ [][TrackerNext]_vars
SpecRegistry == Init /\ [][RegistryNext]_vars
SpecQueue == Init /\ [][QueueNext]_vars
SpecBus == Init /\ [][BusNext]_vars
SpecDispatch == Init /\ [][DispatchNext]_vars
SpecWait == Init /\ [][WaitNext]_vars
SpecLink == Init /\ [][LinkNext]_vars
SpecReload == Init /\ [][ReloadNext]_vars
SpecMatch == Init /\ [][MatchNext]_vars
SpecSender == Init /\ [][SenderNext]_vars
SpecSingleton == Init /\ [][SingletonNext]_vars
SpecLifecycle == Init /\ [][LifecycleNext]_vars
SpecRestart == Init /\ [][RestartNext]_vars
\* the loop threads do not all stand still for ever while one of them can
\* take a step (the exchanges of a poll and the sleeps have timeouts)
SpecShutdown ==
    /\ Init
    /\ [][LifecycleNext]_vars
    /\ WF_vars(\E l \in LoopIds : LoopStep(l))

(***************************************************************************)
(* PROPERTIES                                                              *)
(***************************************************************************)
\* C1: at most one caller at a time is inside a lease scope that holds an
\* adapter for a given port.
C1_OneExchangePerPort == \A p \in PoolPorts : Cardinality(InScope(p)) <= 1

\* a step of a status handler (_handle_device_online / _handle_device_offline)
HandlerStep ==
    /\ wpc = "in_poll"
    /\ ppc \in {"online", "offline"}
    /\ <<ppc, pctx, pollIdx>>' # <<ppc, pctx, pollIdx>>
\* the handler step changed is_online of the polled descriptor
Flipped == objs'[Polled].is_online # objs[Polled].is_online
\* the kind of event that belongs to the new value of is_online
EdgeKind == IF objs'[Polled].is_online THEN "online" ELSE "offline"

NeverAnswered(n) ==
    {s \in Slots : objs[s].used /\ hist[s].neverPong /\ hist[s].polls = n}

\* C3 as stated: a device that never answered ping in its n >= 1 polls has
\* consecutive_failures = n, is offline, and exactly one offline event was
\* emitted for it.
C3_OneOfflineEvent ==
    \A n \in 1..MaxCycles : \A s \in NeverAnswered(n) :
        /\ objs[s].consecutive_failures = n
        /\ ~objs[s].is_online
        /\ hist[s].evOffline = 1

\* C3: a device that never answered ping in its n polls has
\* consecutive_failures = n and is offline, and no offline event was emitted
\* for it: it was loaded offline, so no failing poll is an edge.
C3_NoOfflineEvent ==
    \A n \in 0..MaxCycles : \A s \in NeverAnswered(n) :
        /\ objs[s].consecutive_failures = n
        /\ ~objs[s].is_online
        /\ hist[s].evOffline = 0

\* SENSOR-001 on COM4 has failed three polls in a row
C3_Witness ==
    \E s \in NeverAnswered(3) :
        objs[s].device_identifier = IdA /\ objs[s].port = "COM4"

\* C4: in every descriptor, is_online implies consecutive_failures = 0, and
\* consecutive_failures is never negative.
C4_OnlineMeansNoFailures ==
    \A s \in Slots :
        /\ objs[s].is_online => objs[s].consecutive_failures = 0
        /\ objs[s].consecutive_failures >= 0

\* a descriptor that had failed is online again after a reload
C4_Witness ==
    /\ loadResult = "parsed"
    /\ cycle_count >= CONFIG_RELOAD_CYCLES
    /\ \E s \in Slots : objs[s].is_online
    /\ \E s \in Slots : objs[s].used /\ objs[s].consecutive_failures > 0

\* identifiers of the loader's in-memory set
IdsOf(objects, devs) ==
    {objects[devs[i]].device_identifier : i \in 1..Len(devs)}
\* the descriptor of an identifier of the in-memory set
DescOf(objects, devs, id) == objects[SlotOf(objects, Range(devs), id)]
\* entries of the file that name a device and a port
ValidEntries(file) ==
    {i \in 1..Len(file.content.devices) :
        /\ file.content.devices[i].kind = "dict"
        /\ file.content.devices[i].id # EmptyStr
        /\ file.content.devices[i].port # NoPort}
ValidIds(file) == {file.content.devices[i].id : i \in ValidEntries(file)}
\* the port that the file gives an identifier (its last entry)
FilePort(file, id) ==
    LET last == CHOOSE i \in ValidEntries(file) :
                  /\ file.content.devices[i].id = id
                  /\ \A j \in ValidEntries(file) :
                        file.content.devices[j].id = id => j <= i
    IN file.content.devices[last].port

\* C5: a reload keeps is_online, last_seen and consecutive_failures of every
\* identifier present before and after it and gives it the port of the file,
\* creates the identifiers that are new in the file in the initial state,
\* and removes every identifier that the file does not have.
C5_ReloadMerges ==
    [][(loadTick' # loadTick /\ loadResult' = "parsed") =>
        LET before == IdsOf(objs, loaderDevices)
            after == IdsOf(objs', loaderDevices')
        IN
          /\ after = ValidIds(configFile)
          /\ \A id \in after \cap before :
               LET o == DescOf(objs, loaderDevices, id)
                   n == DescOf(objs', loaderDevices', id)
               IN /\ n.is_online = o.is_online
                  /\ n.last_seen = o.last_seen
                  /\ n.consecutive_failures = o.consecutive_failures
                  /\ n.port = FilePort(configFile, id)
          /\ \A id \in after \ before :
               LET n == DescOf(objs', loaderDevices', id)
               IN /\ ~n.is_online
                  /\ n.last_seen = NoneTime
                  /\ n.consecutive_failures = 0
                  /\ n.port = FilePort(configFile, id)]_vars

\* a reload moved an online descriptor from COM5 to COM4 and kept its
\* state, and dropped the other descriptor
C5_Witness ==
    /\ loadResult = "parsed"
    /\ Len(loaderDevices) = 1
    /\ configFile.mtime > 1
    /\ last_modified = configFile.mtime
    /\ LET d == objs[loaderDevices[1]] IN
         d.is_online /\ d.port = "COM4" /\ d.device_identifier = IdB

\* C6: each enqueued command is dequeued at most once and causes at most one
\* threshold-send invocation, a dequeued command is never in the queue
\* again, and commands leave the queue in the order they were enqueued.
C6_AtMostOnceFifo ==
    /\ \A i, j \in 1..Len(dequeued) : dequeued[i] = dequeued[j] => i = j
    /\ \A k \in Tokens : sendCalls[k] <= 1
    /\ \A k \in Tokens : sendCalls[k] = 1 => k \in Range(dequeued)
    /\ Range(dequeued) \cap Queued = {}
    /\ \A i \in 1..Len(dequeued) : dequeued[i] = i
    /\ \A i \in 1..Len(command_queue) :
          command_queue[i].tok = Len(dequeued) + i

\* two commands were queued together; one was sent, one was dropped
C6_Witness ==
    /\ Len(dequeued) = 2
    /\ drainSnap = {1, 2}
    /\ \E k \in Tokens : sendCalls[k] = 1
    /\ \E k \in Tokens : cmdHist[k].result = "dropped"

\* commands in the queue at the start of the drain of this cycle have been
\* attempted or dropped when the drain is over
SnapDrained ==
    wpc # "drain" =>
        \A k \in drainSnap : /\ k \in Range(dequeued)
                             /\ cmdHist[k].result \in {"attempted", "dropped"}
\* a command is in the queue only until the next drain: one enqueued during
\* a drain leaves in that drain, one enqueued at another time leaves in the
\* drain of the next cycle, before any poll of that cycle
GoneByNextDrain ==
    \A k \in Queued :
        IF cmdHist[k].pre
        THEN cycle_count = cmdHist[k].cycle /\ wpc = "drain"
        ELSE \/ cycle_count = cmdHist[k].cycle /\ wpc # "drain"
             \/ cycle_count = cmdHist[k].cycle + 1 /\ wpc = "drain"

\* C7 as stated: commands queued when a drain starts are attempted or
\* dropped before any poll of the cycle, a later command is attempted in the
\* next drain, no command stays past the next drain, and no command is
\* attempted after a poll of its target device that followed its enqueue.
C7_BeforeNextPollOfTarget ==
    /\ SnapDrained
    /\ GoneByNextDrain
    /\ \A k \in Tokens : ~cmdHist[k].late

\* C7: commands queued when a drain starts are attempted or dropped before
\* any poll of the cycle, a command enqueued after the drain is attempted in
\* the drain of the next cycle, before any poll of that next cycle, and no
\* command stays in the queue past the next drain.
C7_DrainedBeforeNextPass ==
    /\ SnapDrained
    /\ GoneByNextDrain

\* a command enqueued after the drain of cycle 1 was sent in the drain of
\* cycle 2, after its target had been polled in cycle 1
C7_Witness ==
    \E k \in Tokens :
        /\ k \in Range(dequeued)
        /\ ~cmdHist[k].pre
        /\ cmdHist[k].cycle = 1
        /\ cmdHist[k].result = "attempted"
        /\ cmdHist[k].late

\* C8: publish() returns false without calling the client's publish whenever
\* the connected flag is false, and from an unexpected disconnect until the
\* next successful connect callback the flag is false and every publish()
\* returns false.
C8_PublishNeedsConnection ==
    /\ downSince => ~connected
    /\ busOp.op = "publish" =>
         /\ ~busOp.sawConnected => ~busOp.result /\ ~busOp.clientCalled
         /\ downSince => ~busOp.result /\ ~busOp.clientCalled

\* publish() was called after the connection was lost, while the library has
\* a new socket whose connect callback is still due
C8_Witness ==
    /\ busOp.op = "publish"
    /\ downSince
    /\ sock
    /\ connackPending
    /\ ~busOp.result

\* C9: a successful connect callback issues a subscribe call for every
\* pattern in the subscription table, so when it has returned, and while
\* that connection stands, no registered pattern is without a subscribe
\* call.
C9_ResubscribesAll ==
    (connected /\ sock /\ ~connackPending /\ resub = NoIter) =>
        Keys(message_handlers) \subseteq issuedSubs

\* C10: subscribe(pattern, handler) registers the pattern whenever it is
\* called, also while the client is not connected.
C10_SubscribeAlwaysRegisters ==
    busOp.op = "subscribe" => busOp.arg \in Keys(message_handlers)

\* C11: at most one reconnect attempt is pending (scheduled and not yet
\* fired) at any time.
C11_OneReconnectPending == timerPending <= 1

\* the latest call or callback was a connection attempt that failed:
\* client.connect raised, the broker refused, or the connection was lost
AttemptFailed ==
    \/ busOp.op \in {"connect", "timer"} /\ busOp.clientCalled
                                           /\ ~busOp.result
    \/ busOp.op = "on_connect" /\ ~busOp.result
    \/ busOp.op = "on_disconnect"

\* C12: every failed connection attempt, also one made by the reconnect
\* timer, leaves a reconnect attempt scheduled.
C12_FailureLeavesReconnect == AttemptFailed => timerPending >= 1

\* the wildcard semantics of MQTT: levels are compared one by one, '+'
\* stands for exactly one level, a trailing '#' for any number of levels
\* after a prefix that the topic matches in full
MqttMatches(pattern, topic) ==
    LET ps == Split(pattern)
        ts == Split(topic)
        LevelsMatch(n) == \A i \in 1..n : ps[i] = <<"+">> \/ ps[i] = ts[i]
    IN IF ps[Len(ps)] = <<"#">>
       THEN Len(ts) >= Len(ps) - 1 /\ LevelsMatch(Len(ps) - 1)
       ELSE Len(ts) = Len(ps) /\ LevelsMatch(Len(ps))

\* C13: _topic_matches(pattern, topic) is true exactly when the wildcard
\* semantics of MQTT hold.
C13_MatchesMqttSemantics ==
    matchCall # NoMatchCall =>
        matchCall.result = MqttMatches(matchCall.pattern, matchCall.topic)

\* find_handler as the subscription table is meant to work: the handler
\* under the exact topic, else the handler of the first pattern in the order
\* of registration that matches as an MQTT filter, else none
MqttFind(table, topic) ==
    IF topic \in Keys(table)
    THEN table[CHOOSE i \in 1..Len(table) : table[i].pattern = topic].handler
    ELSE LET hits == {i \in 1..Len(table) :
                        MqttMatches(table[i].pattern, topic)}
         IN IF hits = {} THEN NoHandler ELSE table[Min(hits)].handler

\* C14: for a message that arrived (with a payload that parses) the handler
\* that is invoked is the one registered under the exact topic, else the one
\* of the first pattern in registration order whose wildcard semantics match
\* the topic, and none when no pattern matches
C14_DispatchesFirstMatch ==
    (busOp.op = "message" /\ busOp.result) =>
        busOp.handler = MqttFind(message_handlers, busOp.arg)

\* C15: set_threshold with a value outside 0..100 returns false and writes
\* nothing; with a value inside 0..100 it writes one threshold-set envelope,
\* reads nothing and returns true iff the write succeeded; set_interval with
\* less than 1 second returns false and writes nothing
C15_RejectsOutOfRange ==
    /\ (senderCall.op = "set_threshold"
          /\ (senderCall.arg < 0 \/ senderCall.arg > 100))
        => (senderCall.done.result = FALSE /\ senderCall.done.writes = <<>>)
    /\ (senderCall.op = "set_threshold"
          /\ senderCall.arg >= 0 /\ senderCall.arg <= 100)
        => /\ senderCall.done.writes =
                <<[topic |-> "config/threshold", data |-> senderCall.arg]>>
           /\ senderCall.done.reads = 0
           /\ senderCall.done.result = senderCall.writeOk
    /\ (senderCall.op = "set_interval" /\ senderCall.arg < 1)
        => (senderCall.done.result = FALSE /\ senderCall.done.writes = <<>>)

\* set_threshold(80) made its one write and returned true
C15_Witness ==
    /\ senderCall.op = "set_threshold"
    /\ senderCall.arg = 80
    /\ Len(senderCall.done.writes) = 1
    /\ senderCall.done.result

\* a caller leaves its lease scope (lock.release() and the rest of finally)
ReleaseStep(t) ==
    /\ tpc[t] \in {"scope", "finally"}
    /\ tpc'[t] # tpc[t]
\* a caller asks for a lease on port p and the generator gets past the
\* lookup of the entry
LeaseStep(t, p) ==
    /\ tpc[t] = "idle"
    /\ tpc'[t] # "idle"
    /\ tport'[t] = p
\* the per-port mutex is held only by a caller that is inside its scope
HeldOnlyInScope ==
    \A e \in EntryIds :
        entryLock[e] # NoThread =>
            (tpc[entryLock[e]] = "scope" /\ tlock[entryLock[e]] = e)
\* a release leaves every handle as it was
ReleaseKeepsHandle ==
    (\E t \in Threads : ReleaseStep(t)) => entrySerialOpen' = entrySerialOpen

\* C16 as stated: a scope that obtained the per-port mutex releases it on
\* every exit path, a release never closes the handle, and the next lease on
\* the port receives the same open handle.
C16_NextLeaseSameHandle ==
    /\ []HeldOnlyInScope
    /\ [][ReleaseKeepsHandle]_vars
    /\ [][\A t \in Threads, p \in PoolPorts :
            (LeaseStep(t, p) /\ released[p] # NoEntry) =>
                (tlock'[t] = released[p] /\ entrySerialOpen'[released[p]])]_vars

\* C16 amended: ... and the next lease on the port receives the same open
\* handle unless close_connection has closed that handle in the meantime.
C16_NextLeaseSameHandleUnlessClosed ==
    /\ []HeldOnlyInScope
    /\ [][ReleaseKeepsHandle]_vars
    /\ [][\A t \in Threads, p \in PoolPorts :
            (LeaseStep(t, p) /\ released[p] # NoEntry
               /\ entrySerialOpen[released[p]]) =>
                (tlock'[t] = released[p] /\ entrySerialOpen'[released[p]])]_vars

\* a caller is inside a scope on COM4 with the handle of the scope that
\* ended before it, and nobody else holds a mutex
C16_Witness ==
    /\ \E t \in Threads :
         /\ tpc[t] = "scope"
         /\ tport[t] = "COM4"
         /\ released["COM4"] = tlock[t]
         /\ entrySerialOpen[tlock[t]]
         /\ \A e \in EntryIds : entryLock[e] \in {NoThread, t}

\* the pool objects in use that hold an entry (an open handle) for port p
HoldersOf(p) ==
    {i \in InstanceIds :
        /\ instance = i \/ \E u \in Threads : manager[u] = i
        /\ instConnections[i][p]}

\* C17: a lease request for a port without entry that is not enumerable, or
\* whose open fails, yields none and leaves the pool without an entry for
\* the port; and there is never more than one entry (one open handle) for a
\* port name.
C17_OneEntryPerPort ==
    /\ \A t \in Threads :
          (npc[t] = "scope" /\ mresult[t] = "none") =>
              ~instConnections[manager[t]][mport[t]]
    /\ \A p \in PoolPorts : Cardinality(HoldersOf(p)) <= 1

\* poll_device ends in this step
PollEnds == wpc = "in_poll" /\ wpc' = "polls"
\* a status handler that marks the polled device online runs in this step
MarksOnline == wpc = "in_poll" /\ ppc = "online" /\ ppc' # "online"

\* C18: a poll that gets no lease, no pong or no reading data marks the
\* device offline and returns failure; the device is marked online only in
\* a poll whose lease, ping, reading request and processing all succeeded;
\* a poll whose processing fails returns failure.
C18_PollOutcomes ==
    [][/\ (PollEnds /\ pollRec'.outcome \in {"nolease", "noping", "nodata"})
          => (~objs'[Polled].is_online /\ pollRec'.result = "false")
       /\ MarksOnline => pollRec.outcome = "ok"
       /\ (PollEnds /\ pollRec'.outcome = "procfail")
          => pollRec'.result = "false"]_vars

\* the loop threads that have been started and have not ended
LiveLoops == {l \in LoopIds : lpc[l] \notin {"unborn", "ended"}}

\* C19: a start() that finds the worker running changes no state, and as
\* long as stop() has not been called the start() calls of all contexts
\* together spawn one polling loop.
C19_StartSpawnsOneLoop == ~stopCalled => nLoops <= 1

\* loop thread l takes a step while it is in the inter-cycle sleep
SleepStep(l) ==
    /\ lpc[l] = "sleep"
    /\ <<lpc[l], elapsed[l]>>' # <<lpc[l], elapsed[l]>>

\* C20: while the running flag is clear a polling loop starts no new cycle
\* and no new device poll and leaves the inter-cycle sleep at its next
\* check; a loop that is alive when the flag is clear ends unless the flag
\* is set again; and a stop() that waits in its join can return, whether
\* the loop has ended or not.
C20_StopEndsLoop ==
    /\ [][\A l \in LoopIds :
            /\ (lpc[l] = "test" /\ lpc'[l] = "cycle") => running
            /\ (lpc[l] = "cycle" /\ lpc'[l] = "polling") => running
            /\ (SleepStep(l) /\ ~running) => lpc'[l] = "test"]_vars
    /\ \A l \in LoopIds :
          (~running /\ l \in LiveLoops) ~> (lpc[l] = "ended" \/ running)
    /\ [](\A c \in Callers : cpc[c] = "stop_join" => ENABLED StopJoin(c))

\* stop() has cleared the flag and has returned, one loop has ended after
\* it and another one has not ended yet
C20_Witness ==
    /\ stopCalled
    /\ ~running
    /\ \A c \in Callers : cpc[c] = "idle"
    /\ \E l \in LoopIds : lpc[l] = "ended"
    /\ \E l \in LoopIds : lpc[l] = "sleep"

\* the for loop of _run_loop leaves the poll pass with the flag still set
PassComplete ==
    /\ wpc \in {"polls", "in_poll"}
    /\ wpc' \notin {"polls", "in_poll"}
    /\ running

\* s is an initial part of t
IsPrefix(s, t) == Len(s) <= Len(t) /\ s = SubSeq(t, 1, Len(s))

\* C21: within one cycle, while the worker keeps running, every device of
\* the current device list is polled exactly once, in list order; a poll
\* that raises does not keep the devices after it from being polled
C21_EveryDevicePolledOnce ==
    /\ [][PassComplete => cyclePolls = workerDevices]_vars
    /\ [](wpc \in {"polls", "in_poll"} => IsPrefix(cyclePolls, workerDevices))

\* the poll of the first of two devices has raised and the for loop is
\* about to poll the second
C21_Witness ==
    /\ wpc = "polls"
    /\ running
    /\ Len(workerDevices) = 2
    /\ cyclePolls = <<workerDevices[1]>>
    /\ pollRec.result = "raise"
    /\ ENABLED PollStart

\* C22: while the running flag is set the polling loop does not end: an
\* exception that leaves the body of a cycle is caught and followed by the
\* backoff, after which the flag is tested again and, if it is set, a
\* further cycle starts; the loop ends only by a test that finds it clear
C22_LoopSurvivesException ==
    /\ [][\A l \in LoopIds :
            /\ (lpc[l] # "ended" /\ lpc'[l] = "ended")
               => (lpc[l] = "test" /\ ~running)
            /\ (lpc[l] \in {"cycle", "polling", "sleep"} /\ lpc'[l] \notin
                   {"cycle", "polling", "sleep", "test"})
               => lpc'[l] = "backoff"
            /\ (lpc[l] = "backoff" /\ lpc'[l] # "backoff")
               => lpc'[l] = "test"
            /\ (lpc[l] = "test" /\ lpc'[l] # "test" /\ running)
               => lpc'[l] = "cycle"]_vars
    /\ [](\A l \in LoopIds :
            /\ lpc[l] = "backoff" => ENABLED LoopBackoffEnd(l)
            /\ lpc[l] = "test" => ENABLED LoopTest(l))

\* a loop is in the backoff that follows an exception, the flag still set
C22_Witness ==
    \E l \in LoopIds : lpc[l] = "backoff" /\ running /\ ~stopCalled

\* the file has an entry that is no object or lacks an identifier or a port
Malformed(file) ==
    /\ file.exists
    /\ file.content.json
    /\ \E i \in 1..Len(file.content.devices) :
          LET e == file.content.devices[i] IN
            e.kind = "notdict" \/ e.id = EmptyStr \/ e.port = NoPort

\* C23: when the device-list file is missing, is not valid JSON or has a
\* malformed entry, load_devices returns the cached set as it was before the
\* call: the same descriptors, each with its port, is_online, last_seen and
\* consecutive_failures unchanged
C23_DegradedLoadKeepsCache ==
    [][(/\ loadTick' # loadTick
        /\ ~configFile.exists \/ ~configFile.content.json
             \/ Malformed(configFile))
       => /\ loaderDevices' = loaderDevices
          /\ \A s \in Range(loaderDevices) : objs'[s] = objs[s]]_vars

\* the callback _on_message ends in this step
MessageEnds == busOp'.op = "message" /\ busOp' # busOp

\* C24: a message whose payload is not JSON, that has no matching handler
\* or whose handler raises leaves the connected flag, the reconnecting flag
\* and the subscription table as they were and schedules no reconnect, and
\* a message that arrives afterwards is still dispatched
C24_MessageFailureIsLocal ==
    /\ [][(MessageEnds /\ busOp'.failed # "none")
           => /\ connected' = connected
              /\ reconnecting' = reconnecting
              /\ message_handlers' = message_handlers
              /\ timerPending' = timerPending
              /\ sock' = sock /\ loopOn' = loopOn]_vars
    /\ []((/\ busOp.op = "message" /\ busOp.failed # "none"
            /\ sock /\ loopOn /\ search = NoSearch)
           => \A t \in MessageTopics : ENABLED OnMessage(t, "handled"))

\* the handler of a message raised while the client was connected, and the
\* client is connected still
C24_Witness ==
    /\ busOp.op = "message"
    /\ busOp.failed = "raise"
    /\ busOp.sawConnected
    /\ connected
    /\ ~reconnecting

\* C25: a subscribe() that inserts a pattern while the network loop iterates
\* the subscription table (re-subscribing in the connect callback, or
\* searching the pattern that matches a message) never makes the iteration
\* fail or leave out a pattern registered before
C25_TableToleratesInsertion ==
    /\ [][(resub # NoIter /\ resub' = NoIter)
           => (~IteratorFails(message_handlers, resub)
               /\ resub.pos > resub.used)]_vars
    /\ [](busOp.op = "message" => busOp.failed # "iter")

\* C26: no wait of the core is without a timeout; in particular a caller
\* that waits for the mutex of a port can always leave the wait by a step of
\* its own, whether or not the caller that holds the mutex ever releases it
C26_LeaseWaitIsBounded ==
    \A t \in Threads : tpc[t] = "acquire" => ENABLED LeaseAcquire(t)

\* C27: during a poll the mutex of the port is held only while a protocol
\* exchange (ping, reading request) is in progress, and not while the
\* status transition and the publication of its event run
C27_MutexOnlyDuringExchange == pollLease => ppc = "exchange"

\* the lines of the wait that the claim accepts: envelopes of the expected
\* topic that were received before the deadline
InWindow ==
    {i \in 1..Len(wait.lines) :
        /\ Accepts(wait.lines[i].line, ExpectedTopic(wait.op))
        /\ wait.lines[i].at < wait.deadline}

\* C28: the response wait returns the first line received before the
\* deadline that is JSON with the expected topic, whatever lines came before
\* it, and none if there is no such line; so ping() is true iff a pong was
\* received within the window, and request_current_reading() returns the
\* data field of the read response, or none
C28_FirstMatchBeforeDeadline ==
    (wait.pc = "done" /\ wait.deadline > 0) =>
        LET first == IF InWindow = {} THEN NoLine
                     ELSE wait.lines[Min(InWindow)].line
        IN /\ wait.response = first
           /\ wait.ret = Returns(wait.op, first)

\* _process_command_queue took a command from the queue in this step
Drains == dequeued' # dequeued
\* the identifiers of the device list that the worker has loaded
Loaded == {objs[workerDevices[i]].device_identifier :
             i \in 1..Len(workerDevices)}

\* C29: when a queued command is resolved to a device, a device whose
\* identifier equals the resolved identifier is taken, wherever in the list
\* devices stand whose identifier contains it or is contained in it; a
\* substring match is used only when no device matches exactly
C29_ExactMatchFirst ==
    [][Drains =>
        (lastDrain'.wanted \in Loaded
           => lastDrain'.sentTo = lastDrain'.wanted)]_vars

\* C30: a dequeued command that resolves to no device of the loaded list
\* causes no threshold send and the drain goes on with the commands that
\* are left; a lookup that raises or finds no record falls back to the
\* queued key, so that a key that names a loaded device is not dropped
C30_UnresolvedIsDropped ==
    [][Drains =>
        LET cmd == Head(command_queue)
            h == lastDrain'
        IN /\ cmdHist'[cmd.tok].result = "dropped" =>
                /\ sendCalls' = sendCalls
                /\ sendCalls[cmd.tok] = 0
                /\ \A d \in Loaded : ~KeyMatches(d, h.wanted)
           /\ command_queue' = Tail(command_queue)
           /\ wpc' = "drain"
           /\ h.lookup \in {"none", "raise"} =>
                /\ h.wanted = cmd.key
                /\ (\E d \in Loaded : KeyMatches(d, cmd.key))
                      => /\ cmdHist'[cmd.tok].result = "attempted"
                         /\ sendCalls'[cmd.tok] = 1
       ]_vars

\* in one drain a command with an unknown key was dropped and the command
\* after it, whose lookup raised, was sent to a device that its key matches
C30_Witness ==
    /\ dequeued = <<1, 2>>
    /\ cmdHist[1].result = "dropped"
    /\ sendCalls[1] = 0
    /\ cmdHist[2].result = "attempted"
    /\ lastDrain.lookup = "raise"
    /\ lastDrain.sentTo # EmptyStr
    /\ drainSnap = {1, 2}
    /\ wpc = "drain"

\* the result that poll_device gives for the handler it reached when the
\* identity lookup has no part in it: success after the online handler,
\* failure after the offline handler
PlainResult == IF ppc = "online" THEN "true" ELSE "false"

\* C31: when a poll makes an edge transition and the identity record of the
\* device cannot be resolved (the lookup gives no record or fails), the
\* is_online flag has flipped with consecutive_failures / last_seen updated,
\* no status event is published, and the poll ends in that step with the
\* result that it has for a resolved device.
C31_UnresolvedEdgeIsLocal ==
    [][(HandlerStep /\ Flipped /\ lastLookup' \in {"none", "raise"})
         => /\ objs'[Polled] = IF ppc = "online"
                               THEN mark_online(objs[Polled], cycle_count)
                               ELSE mark_offline(objs[Polled])
            /\ lastEvent' = "none"
            /\ PollEnds
            /\ pollRec'.result = PlainResult]_vars

\* the step that begins a cycle: the loop test passed (lines 95-97)
CycleBegins == wpc = "loop" /\ wpc' = "drain"
\* the step of the initial load (line 93)
LoopBegins == wpc = "init" /\ wpc' = "loop"

\* C32: cycle_count grows by exactly one in the step that begins a cycle and
\* changes in no other step; load_devices is called by the loop at its
\* start and then exactly in the cycle-begin steps whose new counter is a
\* multiple of CONFIG_RELOAD_CYCLES, so before the drain and the polls of
\* that cycle, which work on the list that this reload returned.
C32_CounterAndReload ==
    [][/\ cycle_count' = IF CycleBegins THEN cycle_count + 1 ELSE cycle_count
       /\ (loadTick' # loadTick)
            <=> \/ LoopBegins
                \/ CycleBegins /\ cycle_count' % CONFIG_RELOAD_CYCLES = 0
       /\ (loadTick' # loadTick) => workerDevices' = loaderDevices'
       /\ (loadTick' = loadTick) => workerDevices' = workerDevices]_vars

\* the drain of a cycle whose number is a multiple of CONFIG_RELOAD_CYCLES
\* is about to run, after the second load of the loop
C32_Witness ==
    /\ wpc = "drain"
    /\ cycle_count = CONFIG_RELOAD_CYCLES
    /\ loadTick = FALSE
    /\ loadResult # "none"
    /\ workerDevices = loaderDevices

\* C33: every envelope written to the handle is one JSON object followed by
\* a newline: each closing brace in the written characters has a newline
\* right after it.
C33_EnvelopesNewlineDelimited ==
    \A i \in 1..Len(tx) :
        tx[i] = "}" => (i < Len(tx) /\ tx[i + 1] = LF)

\* the loop threads that are executing cycles; a loop that is blocked inside
\* poll_device is not counted
CyclingLoops == {l \in LoopIds : lpc[l] \in {"cycle", "sleep", "backoff"}}

\* C34: at any time at most one polling-loop thread is executing cycles,
\* also when stop() and start() are called one after the other: a loop that
\* was blocked in a poll when stop() returned does not go on cycling beside
\* the loop of the next start().
C34_OneLoopCycles == Cardinality(CyclingLoops) <= 1

\* the reconnect closure calls connect() in this step
TimerConnects == busOp'.op = "timer" /\ busOp'.clientCalled

\* C36: after the application has called disconnect(), and until it calls
\* connect() again, the bus client makes no connection attempt and
\* connected stays false, also when a reconnect timer was pending at the
\* time of the disconnect: the step that follows disconnect() is no
\* connect() of a timer thread and leaves the client without a socket.
C36_DisconnectIsFinal ==
    [][(busOp.op = "disconnect" /\ busOp'.op # "connect")
         => (~TimerConnects /\ ~connected' /\ ~sock')]_vars

\* no load_devices call is going on
LoadsIdle == \A c \in LoadContexts : rcLoad[c].pc = "idle"

\* C37: with load_devices running in the orchestrator's context and in an
\* endpoint's context at the same time, an identifier has one descriptor:
\* a descriptor of the orchestrator's device list and one of the registry
\* that have the same identifier are the same object, so what the status
\* tracker writes is what the registry shows and the next reload keeps.
C37_OneDescriptorPerId ==
    LoadsIdle =>
      \A s \in Range(rcWorkerDevices), t \in Range(rcDevices) :
         rcObjs[s].device_identifier = rcObjs[t].device_identifier
            => s = t

\* C35: a poll of one device runs at most one status transition: the step of
\* a status handler ends the poll, so a poll without lease, pong or data
\* ends with consecutive_failures one above what that step found, and a
\* poll whose exchange and processing succeeded ends with the device
\* online, also when the identity lookup raises inside the handler.
C35_OneTransitionPerPoll ==
    [][/\ HandlerStep => PollEnds
       /\ (PollEnds /\ pollRec'.outcome \in {"nolease", "noping", "nodata"})
            => objs'[Polled].consecutive_failures
                 = objs[Polled].consecutive_failures + 1
       /\ (PollEnds /\ pollRec'.outcome = "ok")
            => objs'[Polled].is_online]_vars

\* C38: a request reports success only on a response that the device sent
\* to that request: the line that ends an exchange with a response is the
\* answer to the request that the exchange wrote, not a pong or a read
\* response that an earlier exchange on the handle left unread.
C38_AnswerBelongsToRequest ==
    (xch.pc = "done" /\ xch.got # 0) => xch.got = xch.req

\* C39: the pool-wide lock is never held by a caller whose lease scope body
\* runs, whether the lease yielded an adapter or none, so that the other
\* callers' lease requests are not kept waiting by that body.
C39_GlobalLockOutsideScopes ==
    \A t \in Threads :
        tpc[t] \in {"scope", "scope_none"} => globalLock # t

\* the callers that wait for or hold a lease on entry e, up to the end of
\* their release
LeasesOn(e) ==
    {t \in Threads : tpc[t] \in {"acquire", "scope", "finally"}
                     /\ tlock[t] = e}

\* C40: the reference count of every entry of the pool is never negative
\* and is the number of callers that wait for or hold a lease on it, for any
\* interleaving of lease requests, releases and close_connection calls.
C40_RefcountCountsLeases ==
    \A p \in PoolPorts :
        connections[p] # NoEntry =>
            /\ entryRefcount[connections[p]] >= 0
            /\ entryRefcount[connections[p]]
                 = Cardinality(LeasesOn(connections[p]))

====
